---- MODULE Spec2Model ----
(***************************************************************************)
(* Kurohyou 1 PSP text extractor: the PACK pipeline (GZIP gate, ELPK/KSEQ  *)
(* structure, entry table, UTF-16-LE text recovery), the CSV cue           *)
(* normaliser and the folder run that calls both.  Byte buffers are        *)
(* sequences of 0..255 with 0-based offsets as in the Python source; texts *)
(* are sequences of Unicode code points.                                   *)
(***************************************************************************)
EXTENDS Integers, Sequences, FiniteSets, TLC

VARIABLES
    gz,             \* the PACK file on disk: "gzip" | "raw" | "corrupt"
    data,           \* bytes the file decompresses to (file bytes for 'pepe')
    tool,           \* the tool that was started ("none" before any)
    pc,             \* position of the running tool
    run,            \* number of completed runs of the recovery pipeline
    sequences,      \* extract_japanese_from_pack_correct: Strategy A result
    null_texts,     \* extract_japanese_from_pack_correct: Strategy B result
    unique_texts,   \* extract_japanese_from_pack_correct: merged result
    seen_texts,     \* extract_japanese_from_pack_correct: dedup set
    prev_unique,    \* what the previous pipeline run returned
    outcome,        \* how the tool that ran ended
    pack_lines,     \* _extract_pack_data: data['lines']
    pack_stats,     \* _extract_pack_data: data['stats']
    kseq_positions, \* analyze_elpk_structure: KSEQ offsets
    japanese_texts, \* analyze_elpk_structure: texts of the KSEQ sections
    entries,        \* analyze_elpk_format: accepted entry records
    pos,            \* analyze_elpk_format: table cursor
    entry_count,    \* analyze_elpk_format: accepted record count
    csv_pc,         \* _extract_csv_data: position
    line_num,       \* _extract_csv_data: enumerate(file, 1) counter
    lines,          \* _extract_csv_data: data['lines']
    dialogue_lines, \* _extract_csv_data counters
    pause_lines,
    total_chars,
    total_duration,
    stats,          \* _extract_csv_data: data['stats']
    file,           \* the raw lines of the CSV file read so far
    kseq_texts,     \* extract_kseq_texts: all_texts, the texts of the sections
    scan_i,         \* find_japanese_text_sequences / _in_data: scan position i
    scan_texts,     \* find_japanese_text_sequences / _in_data: japanese_texts
    scan_steps,     \* iterations of the while loop run so far
    alt_found,      \* extract_utf16_alternative_method: japanese_texts
    alt_unique,     \* extract_utf16_alternative_method: unique_texts
    folder_pc,      \* _auto_process_folder: position
    csv_files,      \* self.csv_files
    pack_files,     \* self.pack_files
    file_idx,       \* index i of the running for loop
    extracted_data, \* self.extracted_data: path -> file_data
    returned,       \* what each extraction call returned, in call order
    current_folder, \* self.current_folder ("" before any selection)
    is_processing,  \* self.is_processing
    workers,        \* the threads started so far, each with its locals
    window          \* the main window: "open" | "closed" | "closed_unprompted"

vars == <<gz, data, tool, pc, run, sequences, null_texts, unique_texts, seen_texts,
          prev_unique, outcome, pack_lines, pack_stats, kseq_positions,
          japanese_texts, entries, pos, entry_count, csv_pc, line_num, lines, dialogue_lines,
          pause_lines, total_chars, total_duration, stats, file, kseq_texts,
          scan_i, scan_texts, scan_steps, alt_found, alt_unique,
          folder_pc, csv_files, pack_files, file_idx, extracted_data, returned,
          current_folder, is_processing, workers, window>>

packVars == <<gz, data, tool, pc, run, sequences, null_texts, unique_texts,
              seen_texts, prev_unique, outcome, pack_lines, pack_stats,
              kseq_positions, japanese_texts, entries, pos, entry_count,
              kseq_texts, scan_i, scan_texts, scan_steps, alt_found,
              alt_unique>>

scanVars == <<scan_i, scan_texts, scan_steps>>

altVars == <<alt_found, alt_unique>>

csvVars == <<csv_pc, line_num, lines, dialogue_lines, pause_lines,
             total_chars, total_duration, stats, file>>

folderVars == <<folder_pc, csv_files, pack_files, file_idx, extracted_data,
                returned, current_folder, is_processing, workers, window>>

----------------------------------------------------------------------------
(* Python sequence primitives *)

Min(a, b) == IF a < b THEN a ELSE b

\* s[a:b] for 0 <= a: b is clamped to len(s), an empty slice when a >= b
Slice(s, a, b) == SubSeq(s, a + 1, Min(b, Len(s)))

\* s.find(pat, start): lowest offset >= start where pat occurs, else -1
Find(s, pat, start) ==
    LET hits == {k \in start..(Len(s) - Len(pat)) :
                    \A j \in 1..Len(pat) : s[k + j] = pat[j]}
    IN IF hits = {} THEN -1
       ELSE CHOOSE k \in hits : \A h \in hits : k <= h

\* bytes.hex().upper(): two uppercase hex digits per byte
HexDigits == <<"0","1","2","3","4","5","6","7","8","9","A","B","C","D","E","F">>

Hex(bytes) ==
    [k \in 1..(2 * Len(bytes)) |->
        IF k % 2 = 1 THEN HexDigits[(bytes[(k + 1) \div 2] \div 16) + 1]
                     ELSE HexDigits[(bytes[k \div 2] % 16) + 1]]

HexValue(d) == (CHOOSE v \in 1..16 : HexDigits[v] = d) - 1

\* bytes.fromhex(): one byte per digit pair (an odd digit count is a ValueError)
FromHexOk(hex) == Len(hex) % 2 = 0

FromHex(hex) ==
    [k \in 1..(Len(hex) \div 2) |->
        16 * HexValue(hex[2 * k - 1]) + HexValue(hex[2 * k])]

----------------------------------------------------------------------------
(* Unicode: the classes of str.isprintable and str.isspace (Unicode 14) on *)
(* the blocks the buffers of this model draw from.                         *)

IsHighSurrogate(u) == u >= 55296 /\ u <= 56319     \* D800..DBFF
IsLowSurrogate(u)  == u >= 56320 /\ u <= 57343     \* DC00..DFFF

IsPrintable(c) ==
    \/ c >= 32 /\ c <= 126
    \/ c >= 161 /\ c <= 172
    \/ c >= 174 /\ c <= 383                        \* 00AE..017F
    \/ c >= 9984 /\ c <= 10175                     \* 2700..27BF
    \/ c >= 12289 /\ c <= 12351                     \* 3001..303F
    \/ c >= 12353 /\ c <= 12438                     \* 3041..3096
    \/ c >= 12441 /\ c <= 12543                     \* 3099..30FF
    \/ c >= 13312 /\ c <= 40959                     \* 3400..9FFF
    \/ c >= 65536 /\ c <= 65547                     \* 10000..1000B
    \/ c >= 131072 /\ c <= 173791                   \* 20000..2A6DF

IsSpace(c) ==
    \/ c >= 9 /\ c <= 13
    \/ c >= 28 /\ c <= 32
    \/ c \in {133, 160, 5760, 8232, 8233, 8239, 8287, 12288}
    \/ c >= 8192 /\ c <= 8202

\* the script-range test written out at each use in the source
IsJapanese(c) ==
    \/ c >= 12352 /\ c <= 12447                     \* 3040..309F Hiragana
    \/ c >= 12448 /\ c <= 12543                     \* 30A0..30FF Katakana
    \/ c >= 19968 /\ c <= 40879                     \* 4E00..9FAF Kanji

HasJapanese(text) == \E k \in 1..Len(text) : IsJapanese(text[k])

\* 16-bit little-endian code unit k (1-based) of raw
Unit(raw, k) == raw[2 * k - 1] + 256 * raw[2 * k]

\* a decoder that passes every code unit through, surrogates included, and
\* drops an odd last byte
Utf16LeDecode_lenient(raw) ==
    [ok |-> TRUE, text |-> [k \in 1..(Len(raw) \div 2) |-> raw[2 * k - 1] + 256 * raw[2 * k]]]

\* bytes.decode('utf-16-le'), strict: fails on an odd byte count and on an
\* unpaired surrogate; a high+low pair decodes to one astral code point
RECURSIVE DecodeUnits(_, _, _)
DecodeUnits(raw, k, acc) ==
    IF k > Len(raw) \div 2 THEN [ok |-> TRUE, text |-> acc]
    ELSE LET u == Unit(raw, k) IN
         IF IsHighSurrogate(u)
         THEN IF k + 1 <= Len(raw) \div 2 /\ IsLowSurrogate(Unit(raw, k + 1))
              THEN DecodeUnits(raw, k + 2,
                      Append(acc, 65536 + (u - 55296) * 1024
                                        + (Unit(raw, k + 1) - 56320)))
              ELSE [ok |-> FALSE, text |-> <<>>]
         ELSE IF IsLowSurrogate(u) THEN [ok |-> FALSE, text |-> <<>>]
         ELSE DecodeUnits(raw, k + 1, Append(acc, u))

Utf16LeDecode(raw) ==
    IF Len(raw) % 2 # 0 THEN [ok |-> FALSE, text |-> <<>>]
    ELSE DecodeUnits(raw, 1, <<>>)

\* str.encode('utf-16-le')
RECURSIVE Utf16LeEncode(_)
Utf16LeEncode(text) ==
    IF text = <<>> THEN <<>>
    ELSE LET c == Head(text) IN
         (IF c < 65536 THEN <<c % 256, c \div 256>>
          ELSE LET v  == c - 65536
                   hi == 55296 + (v \div 1024)
                   lo == 56320 + (v % 1024)
               IN <<hi % 256, hi \div 256, lo % 256, lo \div 256>>)
         \o Utf16LeEncode(Tail(text))

\* str.rstrip('\x00')
RECURSIVE RstripNul(_)
RstripNul(text) ==
    IF text # <<>> /\ text[Len(text)] = 0
    THEN RstripNul(SubSeq(text, 1, Len(text) - 1))
    ELSE text

\* str.strip(): whitespace removed from both ends
RECURSIVE Strip(_)
Strip(text) ==
    IF text = <<>> THEN text
    ELSE IF IsSpace(text[1]) THEN Strip(Tail(text))
    ELSE IF IsSpace(text[Len(text)]) THEN Strip(SubSeq(text, 1, Len(text) - 1))
    ELSE text

decode_utf16le_japanese(hex_bytes) ==
    IF ~FromHexOk(hex_bytes) THEN <<>>
    ELSE LET d == Utf16LeDecode(FromHex(hex_bytes)) IN
         IF d.ok THEN RstripNul(d.text) ELSE <<>>

\* the filter without its script-range test
KeepChar_printable_only(c) == IsPrintable(c)

KeepChar(c) == IsPrintable(c) \/ IsJapanese(c)

\* ''.join(char for char in decoded if char.isprintable() or <script range>)
CleanText(decoded) == SelectSeq(decoded, KeepChar)

----------------------------------------------------------------------------
(* Strategy A: sliding-window decode *)

\* for length in [20, 40, 60, 80, 100, 150, 200]
WindowLengths == <<20, 40, 60, 80, 100, 150, 200>>

NoEntry == [hex |-> <<>>, text |-> <<>>, offset |-> -1]

\* the window cut one code unit short
WindowEntry_short(buf, i, length, min_len) ==
    IF ~(i + length <= Len(buf)) THEN [hex |-> <<>>, text |-> <<>>, offset |-> -1]
    ELSE LET hex_string == Hex(Slice(buf, i, i + length - 2))
             decoded    == decode_utf16le_japanese(hex_string)
         IN IF ~(decoded # <<>> /\ HasJapanese(decoded))
            THEN [hex |-> <<>>, text |-> <<>>, offset |-> -1]
            ELSE [hex |-> hex_string, text |-> Strip(CleanText(decoded)), offset |-> i]

\* one pass of the for-body: the tuple appended for the window data[i:i+length],
\* NoEntry when the window does not fit, does not decode, holds no Japanese
\* character or cleans to fewer than min_len characters
WindowEntry(buf, i, length, min_len) ==
    IF ~(i + length <= Len(buf)) THEN NoEntry
    ELSE LET hex_string == Hex(Slice(buf, i, i + length))
             decoded    == decode_utf16le_japanese(hex_string)
         IN IF ~(decoded # <<>> /\ HasJapanese(decoded)) THEN NoEntry
            ELSE LET clean_text == CleanText(decoded) IN
                 IF Strip(clean_text) # <<>> /\ Len(Strip(clean_text)) >= min_len
                 THEN [hex |-> hex_string, text |-> Strip(clean_text), offset |-> i]
                 ELSE NoEntry

\* index in WindowLengths of the first length that is accepted at i (the
\* break), 0 when the for loop runs to its else clause
FirstWindow(buf, i, min_len) ==
    LET ok == {w \in 1..Len(WindowLengths) :
                  WindowEntry(buf, i, WindowLengths[w], min_len) # NoEntry}
    IN IF ok = {} THEN 0 ELSE CHOOSE w \in ok : \A v \in ok : w <= v

\* the scan moved on by one code unit whether or not a window was accepted
NextScanPos_single_step(buf, i, min_len) == i + 2

NextScanPos_stuck(buf, i, min_len) ==
    LET w == FirstWindow(buf, i, min_len) IN
    IF w = 0 THEN i ELSE i + WindowLengths[w]

\* the scan position after the iteration at i
NextScanPos(buf, i, min_len) ==
    LET w == FirstWindow(buf, i, min_len) IN
    IF w = 0 THEN i + 2 ELSE i + WindowLengths[w]

RECURSIVE ScanWindows(_, _, _, _)
ScanWindows(buf, i, acc, min_len) ==
    IF ~(i < Len(buf) - 3) THEN acc
    ELSE LET w == FirstWindow(buf, i, min_len) IN
         ScanWindows(buf, NextScanPos(buf, i, min_len),
                     IF w = 0 THEN acc
                     ELSE Append(acc, WindowEntry(buf, i, WindowLengths[w], min_len)),
                     min_len)

\* correct_utf16_extractor.py: accepts a cleaned text of 2 or more characters
find_japanese_text_sequences(buf) == ScanWindows(buf, 0, <<>>, 2)

\* kurohyou_csv_extractor.py: accepts a cleaned text of 1 or more characters
find_japanese_text_in_data(buf) == ScanWindows(buf, 0, <<>>, 1)

----------------------------------------------------------------------------
(* Strategy B: decode between 00 00 terminators *)

null_pattern == <<0, 0>>

\* the search resumed one byte, not two, behind each terminator found
RECURSIVE NullPositions_overlapping(_, _, _)
NullPositions_overlapping(buf, start, acc) ==
    LET p == Find(buf, null_pattern, start) IN
    IF p = -1 THEN acc ELSE NullPositions_overlapping(buf, p + 1, Append(acc, p))

\* while True: pos = data.find(null_pattern, start) ... start = pos + 2
RECURSIVE NullPositions(_, _, _)
NullPositions(buf, start, acc) ==
    LET p == Find(buf, null_pattern, start) IN
    IF p = -1 THEN acc ELSE NullPositions(buf, p + 2, Append(acc, p))

\* the tuple appended for the run data[start_pos:end_pos], NoEntry when skipped
RunEntry(buf, start_pos, end_pos) ==
    IF ~(end_pos - start_pos > 4) THEN NoEntry
    ELSE LET hex_string == Hex(Slice(buf, start_pos, end_pos))
             decoded    == decode_utf16le_japanese(hex_string)
         IN IF ~(decoded # <<>> /\ HasJapanese(decoded)) THEN NoEntry
            ELSE LET clean_text == CleanText(decoded) IN
                 IF Strip(clean_text) # <<>> /\ Len(Strip(clean_text)) >= 1
                 THEN [hex |-> hex_string, text |-> Strip(clean_text),
                       offset |-> start_pos]
                 ELSE NoEntry

IsEntry(e) == e # NoEntry

find_japanese_by_null_terminators(buf) ==
    LET positions == NullPositions(buf, 0, <<>>)
        runs == [i \in 1..(Len(positions) - 1) |->
                    RunEntry(buf, positions[i] + 2, positions[i + 1])]
    IN SelectSeq(runs, IsEntry)

----------------------------------------------------------------------------
(* Merge and dedup: extract_japanese_from_pack_correct, lines 146-154 *)

\* a dedup set that outlives the call
FreshSeen_stale == seen_texts

\* unique_texts = [] / seen_texts = set(): fresh on every call
FreshUnique == <<>>
FreshSeen == {}

\* every entry of the list kept, seen before or not
MergeLoop_keep_all(all_texts, unique, seen) ==
    [unique |-> unique \o all_texts,
     seen |-> seen \cup {all_texts[k].text : k \in 1..Len(all_texts)}]

\* for hex_str, decoded, offset in all_texts: ... ; the pair (unique, seen)
RECURSIVE MergeLoop(_, _, _)
MergeLoop(all_texts, unique, seen) ==
    IF all_texts = <<>> THEN [unique |-> unique, seen |-> seen]
    ELSE LET e == Head(all_texts) IN
         IF e.text \notin seen /\ Len(e.text) >= 1
         THEN MergeLoop(Tail(all_texts), Append(unique, e), seen \cup {e.text})
         ELSE MergeLoop(Tail(all_texts), unique, seen)

\* the two lists concatenated the other way round
AllTexts_nulls_first(seqs, nulls) == nulls \o seqs

\* all_texts = sequences + null_texts
AllTexts(seqs, nulls) == seqs \o nulls

(* decode_utf16_japanese.py: extract_utf16_alternative_method *)

\* the text appended at offset i: the cleaned text of the first fragment
\* (for length in [10, 20, 30, 50, 100], in characters) that fits, decodes
\* strictly, holds a Japanese character and does not clean to nothing; <<>>
\* when the for loop ends without its break
AltText(buf, i) ==
    LET AltLengths == <<10, 20, 30, 50, 100>>
        Fragment(w) == Slice(buf, i, i + AltLengths[w] * 2)
        ok == {w \in 1..Len(AltLengths) :
                  /\ i + AltLengths[w] * 2 <= Len(buf)
                  /\ Utf16LeDecode(Fragment(w)).ok
                  /\ HasJapanese(Utf16LeDecode(Fragment(w)).text)
                  /\ Strip(CleanText(Utf16LeDecode(Fragment(w)).text)) # <<>>}
    IN IF ok = {} THEN <<>>
       ELSE Strip(CleanText(Utf16LeDecode(
                Fragment(CHOOSE w \in ok : \A v \in ok : w <= v)).text))

\* for i in range(0, len(data) - 1, 2): the list japanese_texts
AltTexts(buf) ==
    SelectSeq([k \in 1..(Len(buf) \div 2) |-> AltText(buf, 2 * (k - 1))],
              LAMBDA text : text # <<>>)

\* for text in japanese_texts: if text not in seen and len(text) > 0: ...
RECURSIVE DedupLoop(_, _, _)
DedupLoop(texts, unique, seen) ==
    IF texts = <<>> THEN unique
    ELSE IF Head(texts) \notin seen /\ Len(Head(texts)) > 0
    THEN DedupLoop(Tail(texts), Append(unique, Head(texts)), seen \cup {Head(texts)})
    ELSE DedupLoop(Tail(texts), unique, seen)

----------------------------------------------------------------------------
(* analyze_pack_format.py: KSEQ sections *)

ELPK == <<69, 76, 80, 75>>
KSEQ == <<75, 83, 69, 81>>

\* the failed search recorded as a block at the end of the buffer
RECURSIVE KseqPositions_sentinel(_, _, _)
KseqPositions_sentinel(buf, from, acc) ==
    LET p == Find(buf, KSEQ, from) IN
    IF p = -1 THEN Append(acc, Len(buf))
    ELSE KseqPositions_sentinel(buf, p + 4, Append(acc, p))

\* while True: pos = data.find(b'KSEQ', pos) ... pos += 4
RECURSIVE KseqPositions(_, _, _)
KseqPositions(buf, from, acc) ==
    LET p == Find(buf, KSEQ, from) IN
    IF p = -1 THEN acc ELSE KseqPositions(buf, p + 4, Append(acc, p))

\* every section taken to run to the end of the buffer
SectionSize_to_end(buf, positions, i) == Len(buf) - positions[i]

\* section_size of section i (1-based) of the positions found
SectionSize(buf, positions, i) ==
    IF i < Len(positions) THEN positions[i + 1] - positions[i]
    ELSE Len(buf) - positions[i]

SectionData(buf, positions, i) ==
    Slice(buf, positions[i], positions[i] + SectionSize(buf, positions, i))

IsAlphaByte(b) == (b >= 65 /\ b <= 90) \/ (b >= 97 /\ b <= 122)

\* decode_special_japanese: <<>> stands for None; a text is a sequence of
\* ASCII codes, tagged when it is reported as "[JAPONES_CODIFICADO] ..."
decode_special_japanese(text) ==
    IF \/ (\E k \in 1..Len(text) : text[k] = 48) /\ Len(text) > 5
       \/ \E k \in 1..Len(text) : text[k] \in {74, 85, 77, 81, 86}
    THEN <<[coded |-> TRUE, text |-> text]>>
    ELSE IF Len(text) >= 3 /\ \E k \in 1..Len(text) : IsAlphaByte(text[k])
    THEN <<[coded |-> FALSE, text |-> text]>>
    ELSE <<>>

RECURSIVE SectionLoop(_, _, _, _)
SectionLoop(section_data, i, current_text, texts) ==
    IF ~(i < Len(section_data))
    THEN IF Len(current_text) >= 3
         THEN texts \o decode_special_japanese(current_text) ELSE texts
    ELSE LET byte == section_data[i + 1] IN
         IF byte = 0
         THEN SectionLoop(section_data, i + 1, <<>>,
                 IF Len(current_text) >= 3
                 THEN texts \o decode_special_japanese(current_text) ELSE texts)
         ELSE IF byte >= 32 /\ byte <= 126
         THEN SectionLoop(section_data, i + 1, Append(current_text, byte), texts)
         ELSE SectionLoop(section_data, i + 1, <<>>,
                 IF Len(current_text) >= 2
                 THEN texts \o decode_special_japanese(current_text) ELSE texts)

extract_japanese_from_section(section_data) ==
    SectionLoop(section_data, 0, <<>>, <<>>)

RECURSIVE SectionTexts(_, _, _)
SectionTexts(buf, positions, i) ==
    IF i > Len(positions) THEN <<>>
    ELSE extract_japanese_from_section(SectionData(buf, positions, i))
         \o SectionTexts(buf, positions, i + 1)

(* extract_text_pepe.py: the same section scan on the raw file, with plain *)
(* ASCII strings of 3 or more characters as texts                          *)

RECURSIVE KseqSectionLoop(_, _, _, _)
KseqSectionLoop(section_data, i, current_string, texts) ==
    IF ~(i < Len(section_data))
    THEN IF Len(current_string) >= 3 THEN Append(texts, current_string) ELSE texts
    ELSE LET byte == section_data[i + 1] IN
         IF byte >= 32 /\ byte <= 126
         THEN KseqSectionLoop(section_data, i + 1, Append(current_string, byte),
                              texts)
         ELSE KseqSectionLoop(section_data, i + 1, <<>>,
                 IF Len(current_string) >= 3 THEN Append(texts, current_string)
                 ELSE texts)

extract_texts_from_kseq_section(section_data) ==
    KseqSectionLoop(section_data, 0, <<>>, <<>>)

RECURSIVE KseqTexts(_, _, _)
KseqTexts(buf, positions, i) ==
    IF i > Len(positions) THEN <<>>
    ELSE extract_texts_from_kseq_section(SectionData(buf, positions, i))
         \o KseqTexts(buf, positions, i + 1)

----------------------------------------------------------------------------
(* Rationals for Python's true division: num/den with den > 0 *)

Frac(n, d) == [num |-> n, den |-> d]
FracZero == Frac(0, 1)
FracEq(a, b) == a.num * b.den = b.num * a.den
FracPos(a) == a.num > 0

----------------------------------------------------------------------------
(* analyze_pepe_format.py: header and entry table *)

pointer_start == 20
EntryLimit == 50
SizeCeiling == 10000

\* struct.unpack('<I', ...) of the 4 bytes at offset at
U32(buf, at) ==
    buf[at + 1] + 256 * buf[at + 2] + 65536 * buf[at + 3] + 16777216 * buf[at + 4]

\* struct.unpack raises struct.error unless the slice has exactly n bytes
UnpackOk(buf, a, b) == Len(Slice(buf, a, b)) = b - a

\* kseq_pos = data.find(b'KSEQ')
kseq_pos(buf) == Find(buf, KSEQ, 0)

\* the size test off by one
ValidEntry_inclusive(buf, offset, size) ==
    offset > 0 /\ offset < Len(buf) /\ size > 0 /\ size <= SizeCeiling

\* if offset > 0 and offset < len(data) and size > 0 and size < 10000
ValidEntry(buf, offset, size) ==
    offset > 0 /\ offset < Len(buf) /\ size > 0 /\ size < SizeCeiling

\* the loop without its safety limit
TableLoopCond_no_limit(buf, p, count) == p < kseq_pos(buf)

\* while pos < kseq_pos and entry_count < 50
TableLoopCond(buf, p, count) == p < kseq_pos(buf) /\ count < EntryLimit

EntryAt(buf, p, count) ==
    [index |-> count, hash_id |-> U32(buf, p), offset |-> U32(buf, p + 4),
     size |-> U32(buf, p + 8), position |-> p]

----------------------------------------------------------------------------
(* Input buffers: concatenations of a few chunks.  Text chunks are UTF-16-LE *)
(* code units; table chunks are an ELPK header, 12-byte records and a KSEQ  *)
(* block header.                                                            *)

MaxChunks == 2
MaxRecords == 2
MaxRuns == 1

uNUL == <<0, 0>>
uA   == <<65, 0>>
uSP  == <<32, 0>>
uCT  == <<1, 0>>
uHI  == <<66, 48>>
uU3040 == <<64, 48>>
uKJ  == <<0, 78>>
uHS  == <<0, 216>>
uLS  == <<0, 220>>

RECURSIVE Rep(_, _)
Rep(u, n) == IF n = 0 THEN <<>> ELSE u \o Rep(u, n - 1)

TextChunks ==
    { Rep(uHI, 10),
      uNUL \o uHI \o uCT \o uHI \o uNUL \o uA \o Rep(uCT, 4),
      uHI \o uCT \o uHI \o Rep(uCT, 7),
      Rep(uA, 10),
      uSP \o uHI \o uKJ \o uSP \o Rep(uNUL, 6),
      uHS \o Rep(uHI, 9),
      uU3040 \o uA \o Rep(uCT, 8),
      uHI \o Rep(uCT, 9),
      uA \o uKJ \o uHI \o uHI \o uNUL,
      uHI,
      <<0>>,
      Rep(uHI, 9) \o uHS \o uLS \o Rep(uHI, 9) }

RECURSIVE Concats(_, _)
Concats(chunks, n) ==
    IF n = 0 THEN {<<>>}
    ELSE LET shorter == Concats(chunks, n - 1) IN
         shorter \cup {b \o c : b \in shorter, c \in chunks}

TextBuffers == Concats(TextChunks, MaxChunks)

Headers ==
    { ELPK \o <<1, 0, 0, 0>> \o <<2, 0, 0, 0, 52, 0, 0, 0, 0, 0, 0, 0>>,
      <<88, 76, 80, 75>> \o <<1, 0, 0, 0>> \o <<2, 0, 0, 0, 52, 0, 0, 0, 0, 0, 0, 0>>,
      ELPK \o <<1, 0, 0, 0>> }

Records ==
    { <<65, 66, 67, 68>> \o <<21, 0, 0, 0>> \o <<15, 39, 0, 0>>,   \* size 9999
      <<65, 66, 67, 68>> \o <<21, 0, 0, 0>> \o <<16, 39, 0, 0>>,   \* size 10000
      <<65, 66, 67, 68>> \o <<0, 0, 0, 0>>  \o <<4, 0, 0, 0>>,     \* offset 0
      <<65, 66, 67, 68>> \o <<0, 1, 0, 0>>  \o <<4, 0, 0, 0>>,     \* offset 256
      <<65, 66, 67, 68>> \o <<1, 0, 0, 0>>  \o <<0, 0, 0, 0>> }    \* size 0

Tails ==
    { <<>>,
      KSEQ \o <<1, 0, 0, 0, 2, 0, 0, 0>> \o <<74, 48, 77, 82, 75, 48, 0>>,
      KSEQ \o <<1, 0, 0, 0, 2, 0, 0, 0>> \o KSEQ \o <<1, 0, 0, 0, 2, 0, 0, 0>>,
      KSEQ \o <<1, 0>> }

TableBuffers ==
    {h \o r \o t : h \in Headers, r \in Concats(Records, MaxRecords), t \in Tails}

Buffers == TextBuffers \cup TableBuffers

\* a raw (not compressed) container file: a table of one record more than the
\* reader's limit, all plausible, before a KSEQ block header
LongTable ==
    ELPK \o <<1, 0, 0, 0>> \o <<2, 0, 0, 0, 52, 0, 0, 0, 0, 0, 0, 0>>
        \o [k \in 1..(12 * (EntryLimit + 1)) |->
               (<<65, 66, 67, 68>> \o <<21, 0, 0, 0>> \o <<15, 39, 0, 0>>)
                   [((k - 1) % 12) + 1]]
        \o KSEQ \o <<1, 0, 0, 0, 2, 0, 0, 0>>

\* what a stream that fails to decompress had produced before the failure
PartialBuffers == { <<>>, ELPK \o <<1, 0, 0, 0>>, Rep(uHI, 10) }

\* a raw container file whose KSEQ tag begins one byte behind the header, so
\* that the 12 bytes at offset 20 run over the tag and the block header
MisalignedTable ==
    ELPK \o <<1, 0, 0, 0>> \o <<2, 0, 0, 0, 52, 0, 0, 0, 0, 0, 0, 0>>
        \o <<7>> \o KSEQ \o <<0, 0, 0, 0, 1, 0, 0, 0>>
        \o [k \in 1..63 |-> 0]

\* the bytes of a file that is not a GZIP stream
RawFiles == PartialBuffers \cup {LongTable, MisalignedTable}

\* os.path.getsize of the compressed file: 10-byte header, payload, 8-byte trailer
CompressedSize(buf) == 18 + Len(buf)

----------------------------------------------------------------------------
(* State machine of the PACK tools *)

NoStats == [total_lines |-> 0]

InitPack ==
    /\ \/ gz = "gzip" /\ data \in Buffers
       \/ gz = "corrupt" /\ data \in PartialBuffers
       \/ gz = "raw" /\ data \in RawFiles
    /\ tool = "none"
    /\ pc = "idle"
    /\ run = 0
    /\ sequences = <<>>
    /\ null_texts = <<>>
    /\ unique_texts = <<>>
    /\ seen_texts = {}
    /\ prev_unique = <<>>
    /\ outcome = "none"
    /\ pack_lines = <<>>
    /\ pack_stats = NoStats
    /\ kseq_positions = <<>>
    /\ japanese_texts = <<>>
    /\ entries = <<>>
    /\ pos = 0
    /\ entry_count = 0
    /\ kseq_texts = <<>>
    /\ scan_i = 0
    /\ scan_texts = <<>>
    /\ scan_steps = 0
    /\ alt_found = <<>>
    /\ alt_unique = <<>>

\* a read that hands back what it had decompressed before the failure
GzipReadOk_partial == gz \in {"gzip", "corrupt"}

\* gzip.open(...).read() returns the payload only for a complete valid stream
GzipReadOk == gz = "gzip"

(* extract_japanese_from_pack_correct: with gzip.open(...) as f: data = f.read() *)
OpenPack ==
    /\ UNCHANGED <<csvVars, folderVars, kseq_texts, scanVars, altVars>>
    /\ pc = "idle"
    /\ tool' = "extract"
    /\ IF GzipReadOk
       THEN pc' = "scanA" /\ outcome' = "none"
       ELSE pc' = "done" /\ outcome' = "exception"
    /\ UNCHANGED <<gz, data, run, sequences, null_texts, unique_texts,
                   seen_texts, prev_unique, pack_lines, pack_stats,
                   kseq_positions, japanese_texts, entries, pos, entry_count>>

(* sequences = find_japanese_text_sequences(data) *)
ScanA ==
    /\ UNCHANGED <<csvVars, folderVars, kseq_texts, scanVars, altVars>>
    /\ pc = "scanA"
    /\ sequences' = find_japanese_text_sequences(data)
    /\ pc' = "scanB"
    /\ UNCHANGED <<gz, data, tool, run, null_texts, unique_texts, seen_texts,
                   prev_unique, outcome, pack_lines, pack_stats,
                   kseq_positions, japanese_texts, entries, pos, entry_count>>

(* null_texts = find_japanese_by_null_terminators(data) *)
ScanB ==
    /\ UNCHANGED <<csvVars, folderVars, kseq_texts, scanVars, altVars>>
    /\ pc = "scanB"
    /\ null_texts' = find_japanese_by_null_terminators(data)
    /\ pc' = "merge"
    /\ UNCHANGED <<gz, data, tool, run, sequences, unique_texts, seen_texts,
                   prev_unique, outcome, pack_lines, pack_stats,
                   kseq_positions, japanese_texts, entries, pos, entry_count>>

(* lines 146-168: merge, dedup, return unique_texts *)
Merge ==
    /\ UNCHANGED <<csvVars, folderVars, kseq_texts, scanVars, altVars>>
    /\ pc = "merge"
    /\ LET m == MergeLoop(AllTexts(sequences, null_texts), FreshUnique, FreshSeen)
       IN /\ unique_texts' = m.unique
          /\ seen_texts' = m.seen
    /\ pc' = "done"
    /\ outcome' = "ok"
    /\ UNCHANGED <<gz, data, tool, run, sequences, null_texts, prev_unique,
                   pack_lines, pack_stats, kseq_positions, japanese_texts,
                   entries, pos, entry_count>>

(* the caller keeps the returned list and calls the function again on the
   same file *)
RunAgain ==
    /\ UNCHANGED <<csvVars, folderVars, kseq_texts, scanVars, altVars>>
    /\ pc = "done"
    /\ tool = "extract"
    /\ outcome = "ok"
    /\ run < MaxRuns
    /\ run' = run + 1
    /\ prev_unique' = unique_texts
    /\ pc' = "scanA"
    /\ outcome' = "none"
    /\ UNCHANGED <<gz, data, tool, sequences, null_texts, unique_texts,
                   seen_texts, pack_lines, pack_stats, kseq_positions,
                   japanese_texts, entries, pos, entry_count>>

\* line_data of KurohyouUniversalExtractor._extract_pack_data
PackLine(i, e) ==
    [line_id |-> i + 1, text |-> Strip(e.text), hex_data |-> e.hex,
     offset |-> e.offset, length |-> Len(Strip(e.text)), is_dialogue |-> TRUE]

RECURSIVE PackLines(_, _)
PackLines(texts, i) ==
    IF i >= Len(texts) THEN <<>>
    ELSE (IF Strip(texts[i + 1].text) # <<>> /\ Len(Strip(texts[i + 1].text)) >= 1
          THEN <<PackLine(i, texts[i + 1])>> ELSE <<>>)
         \o PackLines(texts, i + 1)

RECURSIVE SumLength(_)
SumLength(ls) == IF ls = <<>> THEN 0 ELSE Head(ls).length + SumLength(Tail(ls))

PackStats(buf, ls) ==
    [total_lines |-> Len(ls),
     dialogue_lines |-> Len(ls),
     pause_lines |-> 0,
     total_chars |-> SumLength(ls),
     avg_chars |-> IF Len(ls) > 0 THEN Frac(SumLength(ls), Len(ls)) ELSE FracZero,
     decompressed_size |-> Len(buf),
     compression_ratio |-> IF Len(buf) > 0
                           THEN Frac(CompressedSize(buf) * 100, Len(buf))
                           ELSE FracZero]

(* KurohyouUniversalExtractor._extract_pack_data (the definition in force,
   line 966): decompress, Strategy A, lines and stats *)
ExtractPackData ==
    /\ UNCHANGED <<csvVars, folderVars, kseq_texts, scanVars, altVars>>
    /\ pc = "idle"
    /\ tool' = "extract_pack_data"
    /\ pc' = "done"
    /\ IF ~GzipReadOk
       THEN /\ outcome' = "none_returned"
            /\ UNCHANGED <<pack_lines, pack_stats>>
       ELSE LET ls == PackLines(find_japanese_text_in_data(data), 0) IN
            /\ pack_lines' = ls
            /\ pack_stats' = PackStats(data, ls)
            /\ outcome' = "ok"
    /\ UNCHANGED <<gz, data, run, sequences, null_texts, unique_texts,
                   seen_texts, prev_unique, kseq_positions, japanese_texts,
                   entries, pos, entry_count>>

(* extract_utf16_alternative_method: gzip.open(...).read() with no handler,
   the fragment scan and the dedup loop *)
ExtractAlternative ==
    /\ UNCHANGED <<csvVars, folderVars, kseq_texts, scanVars>>
    /\ pc = "idle"
    /\ tool' = "extract_utf16_alternative_method"
    /\ pc' = "done"
    /\ IF ~GzipReadOk
       THEN outcome' = "exception" /\ UNCHANGED <<alt_found, alt_unique>>
       ELSE /\ alt_found' = AltTexts(data)
            /\ alt_unique' = DedupLoop(AltTexts(data), <<>>, {})
            /\ outcome' = "ok"
    /\ UNCHANGED <<gz, data, run, sequences, null_texts, unique_texts,
                   seen_texts, prev_unique, pack_lines, pack_stats,
                   kseq_positions, japanese_texts, entries, pos, entry_count>>

(* analyze_pack_file and analyze_elpk_structure *)
AnalyzePackFile ==
    /\ UNCHANGED <<csvVars, folderVars, kseq_texts, scanVars, altVars>>
    /\ pc = "idle"
    /\ tool' = "analyze_pack_file"
    /\ pc' = "done"
    /\ IF gz = "raw"
       THEN outcome' = "NotGzip" /\ UNCHANGED <<kseq_positions, japanese_texts>>
       ELSE IF ~GzipReadOk
       THEN outcome' = "DecompressFailed"
            /\ UNCHANGED <<kseq_positions, japanese_texts>>
       ELSE IF Len(data) = 0
       THEN outcome' = "ZeroDivisionError"
            /\ UNCHANGED <<kseq_positions, japanese_texts>>
       ELSE IF Slice(data, 0, 4) # ELPK
       THEN outcome' = "MissingRootTag"
            /\ UNCHANGED <<kseq_positions, japanese_texts>>
       ELSE /\ kseq_positions' = KseqPositions(data, 0, <<>>)
            /\ japanese_texts' = SectionTexts(data, KseqPositions(data, 0, <<>>), 1)
            /\ outcome' = "ok"
    /\ UNCHANGED <<gz, data, run, sequences, null_texts, unique_texts,
                   seen_texts, prev_unique, pack_lines, pack_stats, entries,
                   pos, entry_count>>

(* extract_kseq_texts: the raw file is read and scanned, with no test of its
   first four bytes *)
ExtractKseqTexts ==
    /\ UNCHANGED <<csvVars, folderVars, scanVars, altVars>>
    /\ pc = "idle"
    /\ tool' = "extract_kseq_texts"
    /\ pc' = "done"
    /\ kseq_positions' = KseqPositions(data, 0, <<>>)
    /\ kseq_texts' = KseqTexts(data, KseqPositions(data, 0, <<>>), 1)
    /\ outcome' = "ok"
    /\ UNCHANGED <<gz, data, run, sequences, null_texts, unique_texts,
                   seen_texts, prev_unique, pack_lines, pack_stats,
                   japanese_texts, entries, pos, entry_count>>

(* analyze_elpk_format, lines 23-66: read the file, the header and the KSEQ
   header; struct.error is not caught here *)
ReadHeader ==
    /\ UNCHANGED <<csvVars, folderVars, kseq_texts, scanVars, altVars>>
    /\ pc = "idle"
    /\ tool' = "analyze_elpk_format"
    /\ IF ~UnpackOk(data, 8, 20)
       THEN pc' = "done" /\ outcome' = "struct.error"
       ELSE IF kseq_pos(data) # -1
               /\ ~UnpackOk(data, kseq_pos(data) + 4, kseq_pos(data) + 12)
       THEN pc' = "done" /\ outcome' = "struct.error"
       ELSE pc' = "table" /\ outcome' = "none"
    /\ pos' = pointer_start
    /\ entries' = <<>>
    /\ entry_count' = 0
    /\ UNCHANGED <<gz, data, run, sequences, null_texts, unique_texts,
                   seen_texts, prev_unique, pack_lines, pack_stats,
                   kseq_positions, japanese_texts>>

(* one iteration of the table loop, lines 68-91 *)
ReadEntry ==
    /\ UNCHANGED <<csvVars, folderVars, kseq_texts, scanVars, altVars>>
    /\ pc = "table"
    /\ TableLoopCond(data, pos, entry_count)
    /\ IF ~UnpackOk(data, pos, pos + 12)
       THEN pc' = "tabledone" /\ UNCHANGED <<entries, entry_count, pos>>
       ELSE IF ValidEntry(data, U32(data, pos + 4), U32(data, pos + 8))
       THEN /\ entries' = Append(entries, EntryAt(data, pos, entry_count))
            /\ entry_count' = entry_count + 1
            /\ pos' = pos + 12
            /\ pc' = "table"
       ELSE pc' = "tabledone" /\ UNCHANGED <<entries, entry_count, pos>>
    /\ UNCHANGED <<gz, data, tool, run, sequences, null_texts, unique_texts,
                   seen_texts, prev_unique, outcome, pack_lines, pack_stats,
                   kseq_positions, japanese_texts>>

(* the loop ends (condition false or break); the entries are returned *)
TableDone ==
    /\ UNCHANGED <<csvVars, folderVars, kseq_texts, scanVars, altVars>>
    /\ \/ pc = "table" /\ ~TableLoopCond(data, pos, entry_count)
       \/ pc = "tabledone"
    /\ pc' = "done"
    /\ outcome' = "ok"
    /\ UNCHANGED <<gz, data, tool, run, sequences, null_texts, unique_texts,
                   seen_texts, prev_unique, pack_lines, pack_stats,
                   kseq_positions, japanese_texts, entries, pos, entry_count>>

Next ==
    \/ OpenPack
    \/ ScanA
    \/ ScanB
    \/ Merge
    \/ RunAgain
    \/ ExtractPackData
    \/ ExtractAlternative
    \/ AnalyzePackFile
    \/ ExtractKseqTexts
    \/ ReadHeader
    \/ ReadEntry
    \/ TableDone

----------------------------------------------------------------------------
(* The two scanners called on a buffer, the Strategy A loop taken one      *)
(* iteration of its while loop at a time                                   *)

\* the length test of the running scanner: >= 2 in correct_utf16_extractor.py,
\* >= 1 in kurohyou_csv_extractor.py
MinLen == IF tool = "find_japanese_text_sequences" THEN 2 ELSE 1

(* japanese_texts = []; i = 0 *)
StartScan ==
    /\ UNCHANGED <<csvVars, folderVars, kseq_texts, altVars>>
    /\ pc = "idle"
    /\ tool' \in {"find_japanese_text_sequences", "find_japanese_text_in_data"}
    /\ pc' = "scan"
    /\ scan_i' = 0
    /\ scan_texts' = <<>>
    /\ scan_steps' = 0
    /\ UNCHANGED <<gz, data, run, sequences, null_texts, unique_texts,
                   seen_texts, prev_unique, outcome, pack_lines, pack_stats,
                   kseq_positions, japanese_texts, entries, pos, entry_count>>

(* one iteration of the while loop: the for loop over the window lengths,
   with its break (append, i += length) or its else clause (i += 2) *)
ScanIteration ==
    /\ UNCHANGED <<csvVars, folderVars, kseq_texts, altVars>>
    /\ pc = "scan"
    /\ scan_i < Len(data) - 3
    /\ LET w == FirstWindow(data, scan_i, MinLen) IN
       scan_texts' = IF w = 0 THEN scan_texts
                     ELSE Append(scan_texts,
                                 WindowEntry(data, scan_i, WindowLengths[w], MinLen))
    /\ scan_i' = NextScanPos(data, scan_i, MinLen)
    /\ scan_steps' = scan_steps + 1
    /\ UNCHANGED <<gz, data, tool, pc, run, sequences, null_texts, unique_texts,
                   seen_texts, prev_unique, outcome, pack_lines, pack_stats,
                   kseq_positions, japanese_texts, entries, pos, entry_count>>

(* the while condition is false: return japanese_texts *)
ScanReturn ==
    /\ UNCHANGED <<csvVars, folderVars, kseq_texts, altVars>>
    /\ pc = "scan"
    /\ ~(scan_i < Len(data) - 3)
    /\ pc' = "done"
    /\ outcome' = "ok"
    /\ UNCHANGED <<gz, data, tool, run, sequences, null_texts, unique_texts,
                   seen_texts, prev_unique, pack_lines, pack_stats,
                   kseq_positions, japanese_texts, entries, pos, entry_count,
                   scan_i, scan_texts, scan_steps>>

(* find_japanese_by_null_terminators(data), called on its own *)
ScanNullTerminators ==
    /\ UNCHANGED <<csvVars, folderVars, kseq_texts, scanVars, altVars>>
    /\ pc = "idle"
    /\ tool' = "find_japanese_by_null_terminators"
    /\ null_texts' = find_japanese_by_null_terminators(data)
    /\ pc' = "done"
    /\ outcome' = "ok"
    /\ UNCHANGED <<gz, data, run, sequences, unique_texts, seen_texts,
                   prev_unique, pack_lines, pack_stats, kseq_positions,
                   japanese_texts, entries, pos, entry_count>>

NextScan ==
    \/ StartScan
    \/ ScanIteration
    \/ ScanReturn
    \/ ScanNullTerminators

----------------------------------------------------------------------------
(* kurohyou_csv_extractor.py: the CSV cue normaliser.  A line is a sequence *)
(* of one-character strings.                                                *)

KUROHYOU_FPS == 30

Digits == <<"0", "1", "2", "3", "4", "5", "6", "7", "8", "9">>
IsDigit(ch) == \E d \in 1..10 : Digits[d] = ch
DigitValue(ch) == (CHOOSE d \in 1..10 : Digits[d] = ch) - 1
IsBlank(ch) == ch \in {" ", "\t", "\n", "\r"}

\* str.strip() on a line of characters
RECURSIVE StripLine(_)
StripLine(l) ==
    IF l = <<>> THEN l
    ELSE IF IsBlank(l[1]) THEN StripLine(Tail(l))
    ELSE IF IsBlank(l[Len(l)]) THEN StripLine(SubSeq(l, 1, Len(l) - 1))
    ELSE l

\* offset (1-based) of the first comma at or after from, 0 when there is none
CommaAt(l, from) ==
    LET cs == {k \in from..Len(l) : l[k] = ","} IN
    IF cs = {} THEN 0 ELSE CHOOSE k \in cs : \A j \in cs : k <= j

\* a split at every comma, of which the first three parts are kept
Split2_every(l) ==
    LET c1 == CommaAt(l, 1) IN
    IF c1 = 0 THEN <<l>>
    ELSE LET c2 == CommaAt(l, c1 + 1) IN
         IF c2 = 0 THEN <<SubSeq(l, 1, c1 - 1), SubSeq(l, c1 + 1, Len(l))>>
         ELSE LET c3 == CommaAt(l, c2 + 1) IN
              <<SubSeq(l, 1, c1 - 1), SubSeq(l, c1 + 1, c2 - 1),
                SubSeq(l, c2 + 1, IF c3 = 0 THEN Len(l) ELSE c3 - 1)>>

\* line.split(',', 2): at most two splits, so at most three parts
Split2(l) ==
    LET c1 == CommaAt(l, 1) IN
    IF c1 = 0 THEN <<l>>
    ELSE LET c2 == CommaAt(l, c1 + 1) IN
         IF c2 = 0 THEN <<SubSeq(l, 1, c1 - 1), SubSeq(l, c1 + 1, Len(l))>>
         ELSE <<SubSeq(l, 1, c1 - 1), SubSeq(l, c1 + 1, c2 - 1),
                SubSeq(l, c2 + 1, Len(l))>>

\* the digits of int(): decimal digits, single underscores between them
DigitsOk(ds) ==
    /\ ds # <<>>
    /\ \A k \in 1..Len(ds) : IsDigit(ds[k]) \/ ds[k] = "_"
    /\ ds[1] # "_" /\ ds[Len(ds)] # "_"
    /\ \A k \in 1..(Len(ds) - 1) : ~(ds[k] = "_" /\ ds[k + 1] = "_")

RECURSIVE DigitsValue(_, _)
DigitsValue(ds, acc) ==
    IF ds = <<>> THEN acc
    ELSE IF Head(ds) = "_" THEN DigitsValue(Tail(ds), acc)
    ELSE DigitsValue(Tail(ds), 10 * acc + DigitValue(Head(ds)))

\* int(s): surrounding whitespace dropped, optional sign, digits;
\* ok = FALSE stands for ValueError
ParseInt(field) ==
    LET t  == StripLine(field)
        sg == t # <<>> /\ t[1] \in {"-", "+"}
        ds == IF sg THEN Tail(t) ELSE t
    IN IF DigitsOk(ds)
       THEN [ok |-> TRUE,
             value |-> IF sg /\ t[1] = "-" THEN 0 - DigitsValue(ds, 0)
                       ELSE DigitsValue(ds, 0)]
       ELSE [ok |-> FALSE, value |-> 0]

\* the sentinel test with "or" for "and"
Duration_either(start_time, end_time) ==
    IF start_time # -1 \/ end_time # -1 THEN end_time - start_time ELSE 0

\* 'duration': end - start if start != -1 and end != -1 else 0
Duration(start_time, end_time) ==
    IF start_time # -1 /\ end_time # -1 THEN end_time - start_time ELSE 0

\* 'is_pause': start == -1 and end == -1
IsPause(start_time, end_time) == start_time = -1 /\ end_time = -1

\* the second field taken without validation
LineAccepted_first_only(parts) ==
    /\ Len(parts) >= 3
    /\ ParseInt(parts[1]).ok

\* if len(parts) >= 3, and int(parts[0]), int(parts[1]) raise no ValueError
LineAccepted(parts) ==
    /\ Len(parts) >= 3
    /\ ParseInt(parts[1]).ok
    /\ ParseInt(parts[2]).ok

\* the cue numbered by its place in the cue list
LineData_renumbered(n, parts) ==
    [line_id |-> Len(lines) + 1,
     start_time |-> ParseInt(parts[1]).value,
     end_time |-> ParseInt(parts[2]).value,
     text |-> parts[3],
     duration |-> Duration(ParseInt(parts[1]).value, ParseInt(parts[2]).value),
     is_pause |-> IsPause(ParseInt(parts[1]).value, ParseInt(parts[2]).value)]

\* line_data, with line_id = line_num of enumerate(file, 1)
LineData(n, parts) ==
    LET start_time == ParseInt(parts[1]).value
        end_time   == ParseInt(parts[2]).value
    IN [line_id |-> n, start_time |-> start_time, end_time |-> end_time,
        text |-> parts[3], duration |-> Duration(start_time, end_time),
        is_pause |-> IsPause(start_time, end_time)]

\* whole seconds only
frames_to_seconds_floor(frames) ==
    IF FracPos(frames)
    THEN Frac(frames.num \div (frames.den * KUROHYOU_FPS), 1)
    ELSE Frac(0, 1)

\* frames_to_seconds on a rational number of frames
frames_to_seconds(frames) ==
    IF FracPos(frames) THEN Frac(frames.num, frames.den * KUROHYOU_FPS)
    ELSE FracZero

\* floor division in place of true division
Average_floor(total, count) ==
    IF count > 0 THEN Frac(total \div count, 1) ELSE Frac(0, 1)

\* total / dialogue_lines if dialogue_lines > 0 else 0
Average(total, count) == IF count > 0 THEN Frac(total, count) ELSE FracZero

\* total_lines taken from the dialogue counter
CsvStats_dialogue_total(ls, dl, pl, tc, td) ==
    [total_lines |-> dl,
     dialogue_lines |-> dl,
     pause_lines |-> pl,
     total_chars |-> tc,
     avg_chars |-> Average(tc, dl),
     total_duration_frames |-> td,
     avg_duration_frames |-> Average(td, dl),
     total_duration_seconds |-> frames_to_seconds(Frac(td, 1)),
     avg_duration_seconds |-> IF dl > 0 THEN frames_to_seconds(Frac(td, dl))
                              ELSE FracZero]

CsvStats(ls, dl, pl, tc, td) ==
    [total_lines |-> Len(ls),
     dialogue_lines |-> dl,
     pause_lines |-> pl,
     total_chars |-> tc,
     avg_chars |-> Average(tc, dl),
     total_duration_frames |-> td,
     avg_duration_frames |-> Average(td, dl),
     total_duration_seconds |-> frames_to_seconds(Frac(td, 1)),
     avg_duration_seconds |-> IF dl > 0 THEN frames_to_seconds(Frac(td, dl))
                              ELSE FracZero]

MaxLines == 2

CsvLines ==
    { <<"5", ",", "1", "5", ",", "a">>,
      <<"1", ",", "2", ",", "a", ",", "a">>,
      <<"1", "5", ",", "5", ",", "a">>,
      <<"-", "1", ",", "-", "1", ",", "a">>,
      <<"-", "1", ",", "5", ",", "a">>,
      <<"5", ",", "-", "1", ",", "a">>,
      <<"5", ",", "1", "5", ",">>,
      <<"a", ",", "5", ",", "a">>,
      <<"5", ",", "a", ",", "a">>,
      <<"5", ",", "1", "5">>,
      <<"a">>,
      <<>>,
      <<" ">>,
      <<",", ",", "a">>,
      <<"-", ",", "5", ",", "a">>,
      <<" ", "5", ",", " ", "1", "5", ",", " ", "a", " ">> }

InitCsv ==
    /\ csv_pc = "idle"
    /\ line_num = 0
    /\ lines = <<>>
    /\ dialogue_lines = 0
    /\ pause_lines = 0
    /\ total_chars = 0
    /\ total_duration = 0
    /\ stats = NoStats
    /\ file = <<>>

(* _extract_csv_data, lines 835-848: the data dict, the counters, open() *)
OpenCsv ==
    /\ UNCHANGED <<packVars, folderVars>>
    /\ csv_pc = "idle"
    /\ csv_pc' = "reading"
    /\ lines' = <<>>
    /\ dialogue_lines' = 0
    /\ pause_lines' = 0
    /\ total_chars' = 0
    /\ total_duration' = 0
    /\ UNCHANGED <<line_num, stats, file>>

(* one iteration of the for loop, lines 849-883 *)
ReadLine(raw) ==
    /\ UNCHANGED <<packVars, folderVars>>
    /\ csv_pc = "reading"
    /\ line_num < MaxLines
    /\ line_num' = line_num + 1
    /\ file' = Append(file, raw)
    /\ LET line  == StripLine(raw)
           parts == Split2(line)
       IN IF line # <<>> /\ LineAccepted(parts)
          THEN LET line_data == LineData(line_num + 1, parts) IN
               /\ lines' = Append(lines, line_data)
               /\ IF line_data.is_pause
                  THEN /\ pause_lines' = pause_lines + 1
                       /\ UNCHANGED <<dialogue_lines, total_chars, total_duration>>
                  ELSE /\ dialogue_lines' = dialogue_lines + 1
                       /\ total_chars' = total_chars + Len(line_data.text)
                       /\ total_duration' = total_duration + line_data.duration
                       /\ UNCHANGED pause_lines
          ELSE UNCHANGED <<lines, dialogue_lines, pause_lines, total_chars,
                           total_duration>>
    /\ UNCHANGED <<csv_pc, stats>>

(* end of file: lines 885-898, the statistics and return data *)
FinishCsv ==
    /\ UNCHANGED <<packVars, folderVars>>
    /\ csv_pc = "reading"
    /\ stats' = CsvStats(lines, dialogue_lines, pause_lines, total_chars,
                         total_duration)
    /\ csv_pc' = "done"
    /\ UNCHANGED <<line_num, lines, dialogue_lines, pause_lines, total_chars,
                   total_duration, file>>

(* open() or the decoding of a line raises: except Exception, return None *)
FailCsv ==
    /\ UNCHANGED <<packVars, folderVars>>
    /\ csv_pc \in {"idle", "reading"}
    /\ csv_pc' = "failed"
    /\ UNCHANGED <<line_num, lines, dialogue_lines, pause_lines, total_chars,
                   total_duration, stats, file>>

NextCsvOnly ==
    \/ OpenCsv
    \/ \E raw \in CsvLines : ReadLine(raw)
    \/ FinishCsv
    \/ FailCsv

----------------------------------------------------------------------------
(* kurohyou_csv_extractor.py: _auto_process_folder.  A path is a pair       *)
(* <<kind, k>>; a dict is a function of its keys, None the function of no   *)
(* key.                                                                     *)

MaxFiles == 2

None == <<>>

\* the truth test with no effect
Truthy_always(file_data) == TRUE

\* if file_data: false for None and for an empty dict
Truthy(file_data) == DOMAIN file_data # {}

\* the lists os.walk fills: nc paths ending in .csv, np paths ending in .pack
FilesFound(kind, n) == [k \in 1..n |-> <<kind, k>>]

\* the lines the CSV files of the folder are made of
FolderLines ==
    { <<"5", ",", "1", "5", ",", "a">>,
      <<"a">> }

\* the PACK files the folder can hold
FolderPacks ==
    { [gz |-> "gzip", data |-> Rep(uHI, 10)],
      [gz |-> "gzip", data |-> <<>>],
      [gz |-> "raw", data |-> <<>>],
      [gz |-> "corrupt", data |-> Rep(uHI, 10)] }

\* the dict _extract_csv_data returns
CsvData(path) == [filepath |-> path, lines |-> lines, stats |-> stats]

\* the dict _extract_pack_data returns
PackData(path) ==
    [filepath |-> path, lines |-> pack_lines, stats |-> pack_stats,
     decompressed_size |-> Len(data)]

\* file_data['category'] = ...; file_data['file_type'] = ...
\* (the category labels are 'cinematicas' and 'dialogos' with their accents)
Tagged(file_data, category, file_type) ==
    [k \in DOMAIN file_data \cup {"category", "file_type"} |->
        IF k = "category" THEN category
        ELSE IF k = "file_type" THEN file_type
        ELSE file_data[k]]

\* self.extracted_data[path] = file_data
Put(dict, path, file_data) ==
    [q \in DOMAIN dict \cup {path} |-> IF q = path THEN file_data ELSE dict[q]]

\* the keys of data['stats'] that _display_file_content, _display_statistics
\* and _export_as_text subscript
StatsKeysRead ==
    {"total_lines", "dialogue_lines", "pause_lines", "total_duration_frames",
     "total_duration_seconds", "avg_duration_frames", "avg_duration_seconds",
     "total_chars", "avg_chars"}

\* the keys of a line that _display_japanese_text, _display_timing_data and
\* _export_as_text subscript: is_pause and line_id for every line, the
\* others for a line that is no pause
LineKeysRead(line_data) ==
    IF "is_pause" \in DOMAIN line_data /\ line_data.is_pause
    THEN {"is_pause", "line_id"}
    ELSE {"is_pause", "line_id", "text", "start_time", "end_time", "duration"}

InitFolder ==
    /\ folder_pc = "idle"
    /\ csv_files = <<>>
    /\ pack_files = <<>>
    /\ file_idx = 0
    /\ extracted_data = <<>>
    /\ returned = <<>>
    /\ current_folder = ""
    /\ is_processing = FALSE
    /\ workers = <<>>
    /\ window = "open"

(* browse_folder and _auto_process_folder, lines 494-559: the lists and the
   dict are cleared, os.walk fills the two lists, and the run ends at once
   when both are empty *)
WalkFolder ==
    /\ UNCHANGED <<packVars, csvVars>>
    /\ UNCHANGED <<current_folder, is_processing, workers, window>>
    /\ folder_pc = "idle"
    /\ \E nc \in 0..MaxFiles, np \in 0..MaxFiles :
          /\ csv_files' = FilesFound("csv", nc)
          /\ pack_files' = FilesFound("pack", np)
          /\ folder_pc' = IF nc + np = 0 THEN "done"
                          ELSE IF nc > 0 THEN "csv" ELSE "pack"
    /\ extracted_data' = <<>>
    /\ file_idx' = 0
    /\ returned' = <<>>

InCsvLoop == folder_pc = "csv" /\ file_idx < Len(csv_files)

(* line 571: file_data = self._extract_csv_data(csv_file), step by step *)
FolderOpenCsv == InCsvLoop /\ OpenCsv

FolderReadLine == InCsvLoop /\ \E raw \in FolderLines : ReadLine(raw)

FolderFinishCsv == InCsvLoop /\ FinishCsv

FolderFailCsv == InCsvLoop /\ FailCsv

(* lines 572-575: the call has returned; its dict is stored when it is
   truthy; the loop moves to the next file, or to the PACK phase *)
StoreCsv ==
    /\ UNCHANGED packVars
    /\ UNCHANGED <<current_folder, is_processing, workers, window>>
    /\ InCsvLoop
    /\ csv_pc \in {"done", "failed"}
    /\ LET csv_file  == csv_files[file_idx + 1]
           file_data == IF csv_pc = "done" THEN CsvData(csv_file) ELSE None
       IN /\ returned' = Append(returned, file_data)
          /\ extracted_data' =
                IF Truthy(file_data)
                THEN Put(extracted_data, csv_file,
                         Tagged(file_data, "cinematicas", "CSV"))
                ELSE extracted_data
    /\ IF file_idx + 1 < Len(csv_files)
       THEN file_idx' = file_idx + 1 /\ folder_pc' = "csv"
       ELSE file_idx' = 0
            /\ folder_pc' = IF pack_files # <<>> THEN "pack" ELSE "done"
    /\ csv_pc' = "idle"
    /\ line_num' = 0
    /\ file' = <<>>
    /\ UNCHANGED <<lines, dialogue_lines, pause_lines, total_chars,
                   total_duration, stats, csv_files, pack_files>>

(* lines 583-590: the loop binds the next pack_file; what the file holds *)
NextPackFile ==
    /\ UNCHANGED csvVars
    /\ folder_pc = "pack"
    /\ file_idx < Len(pack_files)
    /\ \E f \in FolderPacks : gz' = f.gz /\ data' = f.data
    /\ tool' = "none"
    /\ pc' = "idle"
    /\ outcome' = "none"
    /\ folder_pc' = "pack_call"
    /\ UNCHANGED <<run, sequences, null_texts, unique_texts, seen_texts,
                   prev_unique, pack_lines, pack_stats, kseq_positions,
                   japanese_texts, entries, pos, entry_count, kseq_texts,
                   scan_i, scan_texts, scan_steps, alt_found, alt_unique,
                   csv_files, pack_files, file_idx, extracted_data, returned,
                   current_folder, is_processing, workers, window>>

(* line 593: file_data = self._extract_pack_data(pack_file) *)
FolderExtractPack == folder_pc = "pack_call" /\ ExtractPackData

(* lines 594-597: the call has returned; its dict is stored when it is truthy *)
StorePack ==
    /\ UNCHANGED <<packVars, csvVars>>
    /\ UNCHANGED <<current_folder, is_processing, workers, window>>
    /\ folder_pc = "pack_call"
    /\ pc = "done"
    /\ LET pack_file == pack_files[file_idx + 1]
           file_data == IF outcome = "ok" THEN PackData(pack_file) ELSE None
       IN /\ returned' = Append(returned, file_data)
          /\ extracted_data' =
                IF Truthy(file_data)
                THEN Put(extracted_data, pack_file,
                         Tagged(file_data, "dialogos", "PACK"))
                ELSE extracted_data
    /\ file_idx' = file_idx + 1
    /\ folder_pc' = IF file_idx + 1 < Len(pack_files) THEN "pack" ELSE "done"
    /\ UNCHANGED <<csv_files, pack_files>>

NextFolder ==
    \/ WalkFolder
    \/ FolderOpenCsv
    \/ FolderReadLine
    \/ FolderFinishCsv
    \/ FolderFailCsv
    \/ StoreCsv
    \/ NextPackFile
    \/ FolderExtractPack
    \/ StorePack

----------------------------------------------------------------------------
(* kurohyou_csv_extractor.py: the window and its threads.  The handlers of  *)
(* the main thread run to their end; a thread takes one step at a time, and *)
(* the steps of different threads interleave.  A folder f holds one CSV     *)
(* file and one PACK file, both well-formed.  self.csv_files and            *)
(* self.pack_files name list objects: an assignment binds a new list, an    *)
(* append changes the list bound at that moment, and a for loop keeps the   *)
(* list it began on.                                                        *)

MaxWorkers == 2

\* what os.walk yields for folder f, in order
FolderFiles(f) == << <<"csv", f>>, <<"pack", f>> >>

\* self.<attr> is bound to a new list: the loops running on the old list
\* (live = attr) keep it, with the items it has now
Detach(ws, attr, items) ==
    [k \in DOMAIN ws |->
        IF ws[k].live = attr THEN [ws[k] EXCEPT !.live = "no", !.items = items]
        ELSE ws[k]]

\* the list the for loop of thread k runs on
LoopList(k, attr, current) ==
    IF workers[k].live = attr THEN current ELSE workers[k].items

(* browse_folder, lines 485-499, for a folder that was chosen *)
BrowseFolder ==
    /\ UNCHANGED <<packVars, csvVars, folder_pc, file_idx, returned>>
    /\ window = "open"
    /\ Len(workers) < MaxWorkers
    /\ \E f \in {"folder1", "folder2"} : current_folder' = f
    /\ csv_files' = <<>>
    /\ extracted_data' = <<>>
    /\ workers' = Append(Detach(workers, "csv", csv_files),
                         [kind |-> "auto", pc |-> "begin", folder_path |-> "",
                          walked |-> 0, live |-> "no", items |-> <<>>, i |-> 0,
                          total_files |-> 0])
    /\ UNCHANGED <<pack_files, is_processing, window>>

(* _auto_process_folder, lines 507-517: the folder is read and the two
   lists are bound anew *)
WorkerBegin ==
    /\ UNCHANGED <<packVars, csvVars, folder_pc, file_idx, returned>>
    /\ window = "open"
    /\ \E k \in 1..Len(workers) :
          /\ workers[k].kind = "auto" /\ workers[k].pc = "begin"
          /\ workers' = [Detach(Detach(workers, "csv", csv_files),
                                "pack", pack_files)
                            EXCEPT ![k].pc = "walk",
                                   ![k].folder_path = current_folder]
    /\ csv_files' = <<>>
    /\ pack_files' = <<>>
    /\ UNCHANGED <<extracted_data, current_folder, is_processing, window>>

(* lines 521-559: one file of the walk is appended to the list that is bound
   now; after the last one, the early return, or the start of the first
   loop that has files *)
WorkerWalk ==
    /\ UNCHANGED <<packVars, csvVars, folder_pc, file_idx, returned>>
    /\ window = "open"
    /\ \E k \in 1..Len(workers) :
          /\ workers[k].pc = "walk"
          /\ LET files == FolderFiles(workers[k].folder_path)
                 n     == workers[k].walked
             IN IF n < Len(files)
                THEN /\ workers' = [workers EXCEPT ![k].walked = n + 1]
                     /\ IF files[n + 1][1] = "csv"
                        THEN /\ csv_files' = Append(csv_files, files[n + 1])
                             /\ UNCHANGED pack_files
                        ELSE /\ pack_files' = Append(pack_files, files[n + 1])
                             /\ UNCHANGED csv_files
                     /\ UNCHANGED extracted_data
                ELSE /\ UNCHANGED <<csv_files, pack_files>>
                     /\ IF Len(csv_files) + Len(pack_files) = 0
                        THEN /\ workers' = [workers EXCEPT ![k].pc = "done"]
                             /\ UNCHANGED extracted_data
                        ELSE IF csv_files # <<>>
                        THEN /\ workers' = [workers EXCEPT ![k].pc = "csv",
                                                           ![k].live = "csv",
                                                           ![k].i = 0]
                             /\ extracted_data' = <<>>
                        ELSE /\ workers' = [workers EXCEPT ![k].pc = "pack",
                                                           ![k].live = "pack",
                                                           ![k].i = 0]
                             /\ UNCHANGED extracted_data
    /\ UNCHANGED <<current_folder, is_processing, window>>

(* lines 561-578: one iteration of the CSV loop (the progress value divides
   by len(self.csv_files), the list bound now), or its end: the PACK loop
   starts when self.pack_files holds a file *)
WorkerCsv ==
    /\ UNCHANGED <<packVars, csvVars, folder_pc, file_idx, returned>>
    /\ window = "open"
    /\ \E k \in 1..Len(workers) :
          /\ workers[k].kind = "auto" /\ workers[k].pc = "csv"
          /\ LET list == LoopList(k, "csv", csv_files)
                 n    == workers[k].i
             IN IF n < Len(list)
                THEN IF Len(csv_files) = 0
                     THEN /\ workers' = [workers EXCEPT ![k].pc = "error",
                                                        ![k].live = "no"]
                          /\ UNCHANGED extracted_data
                     ELSE /\ workers' = [workers EXCEPT ![k].i = n + 1]
                          /\ extracted_data' =
                                Put(extracted_data, list[n + 1],
                                    Tagged([filepath |-> list[n + 1]],
                                           "cinematicas", "CSV"))
                ELSE /\ workers' =
                          [workers EXCEPT ![k].pc = "pack",
                                          ![k].live = IF pack_files # <<>>
                                                      THEN "pack" ELSE "no",
                                          ![k].items = <<>>,
                                          ![k].i = 0]
                     /\ UNCHANGED extracted_data
    /\ UNCHANGED <<csv_files, pack_files, current_folder, is_processing, window>>

(* lines 583-640: one iteration of the PACK loop, or the end of the run *)
WorkerPack ==
    /\ UNCHANGED <<packVars, csvVars, folder_pc, file_idx, returned>>
    /\ window = "open"
    /\ \E k \in 1..Len(workers) :
          /\ workers[k].pc = "pack"
          /\ LET list == LoopList(k, "pack", pack_files)
                 n    == workers[k].i
             IN IF n < Len(list)
                THEN IF Len(pack_files) = 0
                     THEN /\ workers' = [workers EXCEPT ![k].pc = "error",
                                                        ![k].live = "no"]
                          /\ UNCHANGED extracted_data
                     ELSE /\ workers' = [workers EXCEPT ![k].i = n + 1]
                          /\ extracted_data' =
                                Put(extracted_data, list[n + 1],
                                    Tagged([filepath |-> list[n + 1]],
                                           "dialogos", "PACK"))
                ELSE /\ workers' = [workers EXCEPT ![k].pc = "done",
                                                   ![k].live = "no"]
                     /\ UNCHANGED extracted_data
    /\ UNCHANGED <<csv_files, pack_files, current_folder, is_processing, window>>

(* extract_text, lines 774-782, when it starts a thread *)
ExtractText ==
    /\ UNCHANGED <<packVars, csvVars, folder_pc, file_idx, returned>>
    /\ window = "open"
    /\ Len(workers) < MaxWorkers
    /\ csv_files # <<>>
    /\ ~is_processing
    /\ workers' = Append(workers,
                         [kind |-> "text", pc |-> "begin", folder_path |-> "",
                          walked |-> 0, live |-> "no", items |-> <<>>, i |-> 0,
                          total_files |-> 0])
    /\ UNCHANGED <<csv_files, pack_files, extracted_data, current_folder,
                   is_processing, window>>

(* _extract_text_thread, lines 788-795 *)
ThreadBegin ==
    /\ UNCHANGED <<packVars, csvVars, folder_pc, file_idx, returned>>
    /\ window = "open"
    /\ \E k \in 1..Len(workers) :
          /\ workers[k].kind = "text" /\ workers[k].pc = "begin"
          /\ workers' = [workers EXCEPT ![k].pc = "csv", ![k].live = "csv",
                                        ![k].i = 0,
                                        ![k].total_files = Len(csv_files)]
    /\ is_processing' = TRUE
    /\ extracted_data' = <<>>
    /\ UNCHANGED <<csv_files, pack_files, current_folder, window>>

(* lines 795-822: one iteration of the loop (the progress value divides by
   total_files), or its end; the finally clause follows either way *)
ThreadStep ==
    /\ UNCHANGED <<packVars, csvVars, folder_pc, file_idx, returned>>
    /\ window = "open"
    /\ \E k \in 1..Len(workers) :
          /\ workers[k].kind = "text" /\ workers[k].pc = "csv"
          /\ LET list == LoopList(k, "csv", csv_files)
                 n    == workers[k].i
             IN IF n < Len(list) /\ workers[k].total_files = 0
                THEN /\ workers' = [workers EXCEPT ![k].pc = "error",
                                                   ![k].live = "no"]
                     /\ is_processing' = FALSE
                     /\ UNCHANGED extracted_data
                ELSE IF n < Len(list)
                THEN /\ workers' = [workers EXCEPT ![k].i = n + 1]
                     /\ extracted_data' =
                           Put(extracted_data, list[n + 1],
                               [filepath |-> list[n + 1]])
                     /\ UNCHANGED is_processing
                ELSE /\ workers' = [workers EXCEPT ![k].pc = "done",
                                                   ![k].live = "no"]
                     /\ is_processing' = FALSE
                     /\ UNCHANGED extracted_data
    /\ UNCHANGED <<csv_files, pack_files, current_folder, window>>

(* main.on_closing: the prompt is shown only when is_processing holds; the
   answer to it is the user's *)
OnClosing ==
    /\ UNCHANGED <<packVars, csvVars, folder_pc, file_idx, returned>>
    /\ window = "open"
    /\ IF is_processing
       THEN window' \in {"open", "closed"}
       ELSE window' = "closed_unprompted"
    /\ UNCHANGED <<csv_files, pack_files, extracted_data, current_folder,
                   is_processing, workers>>

NextGui ==
    \/ BrowseFolder
    \/ WorkerBegin
    \/ WorkerWalk
    \/ WorkerCsv
    \/ WorkerPack
    \/ ExtractText
    \/ ThreadBegin
    \/ ThreadStep
    \/ OnClosing

----------------------------------------------------------------------------
(* Specifications *)

\* no PACK file is in play while the CSV normaliser runs
NoPack ==
    /\ gz = "gzip" /\ data = <<>>
    /\ tool = "none" /\ pc = "idle" /\ run = 0
    /\ sequences = <<>> /\ null_texts = <<>> /\ unique_texts = <<>>
    /\ seen_texts = {} /\ prev_unique = <<>> /\ outcome = "none"
    /\ pack_lines = <<>> /\ pack_stats = NoStats
    /\ kseq_positions = <<>> /\ japanese_texts = <<>>
    /\ entries = <<>> /\ pos = 0 /\ entry_count = 0
    /\ kseq_texts = <<>>
    /\ scan_i = 0 /\ scan_texts = <<>> /\ scan_steps = 0
    /\ alt_found = <<>> /\ alt_unique = <<>>

Init == InitPack /\ InitCsv /\ InitFolder
Spec == Init /\ [][Next]_vars

InitCsvOnly == NoPack /\ InitCsv /\ InitFolder
SpecCsv == InitCsvOnly /\ [][NextCsvOnly]_vars

InitFolderOnly == NoPack /\ InitCsv /\ InitFolder
SpecFolder == InitFolderOnly /\ [][NextFolder]_vars

SpecGui == InitFolderOnly /\ [][NextGui]_vars

\* the scanners run on a decompressed payload; a started scan runs on, one
\* iteration after the other, until it returns
InitScan == Init /\ gz = "gzip"
SpecScan == InitScan /\ [][NextScan]_vars /\ WF_vars(NextScan)

----------------------------------------------------------------------------
(* Properties *)

Texts(es) == [k \in 1..Len(es) |-> es[k].text]
Range(f) == {f[k] : k \in DOMAIN f}
BeginsWithELPK(buf) == Slice(buf, 0, 4) = ELPK

\* C1: every tool run on a valid GZIP file whose payload does not begin with
\* ELPK ends in the missing-root-tag failure with no entry record and no
\* recovered text.
C1_MissingRootTagNoOutput ==
    (pc = "done" /\ gz = "gzip" /\ ~BeginsWithELPK(data))
        => /\ outcome = "MissingRootTag"
           /\ entries = <<>>
           /\ pack_lines = <<>>
           /\ unique_texts = <<>>

\* C2: every record the entry table reader has stored satisfies
\* 0 < offset < len(data) and 0 < size < 10000.
C2_EntriesPlausible ==
    \A k \in 1..Len(entries) :
        /\ 0 < entries[k].offset /\ entries[k].offset < Len(data)
        /\ 0 < entries[k].size /\ entries[k].size < 10000

\* C2 witness: the reader stored one record and stopped at a record of
\* size 10000, which it did not store.
C2_Witness ==
    /\ tool = "analyze_elpk_format" /\ pc = "done"
    /\ Len(entries) = 1
    /\ pos + 12 <= kseq_pos(data)
    /\ U32(data, pos + 8) = 10000

\* C3: every text returned by Strategy A (both variants), by Strategy B and
\* by the merge holds at least one Hiragana, Katakana or Kanji character.
C3_TextsHoldJapanese ==
    /\ \A k \in 1..Len(sequences) : HasJapanese(sequences[k].text)
    /\ \A k \in 1..Len(null_texts) : HasJapanese(null_texts[k].text)
    /\ \A k \in 1..Len(unique_texts) : HasJapanese(unique_texts[k].text)
    /\ \A k \in 1..Len(pack_lines) : HasJapanese(pack_lines[k].text)

\* C3 witness: a merged result in which Strategy A returned a text that lost
\* characters to the cleaning of its window and Strategy B returned one too.
C3_Witness ==
    /\ tool = "extract" /\ pc = "done"
    /\ null_texts # <<>>
    /\ \E k \in 1..Len(sequences) :
          4 * Len(sequences[k].text) < Len(sequences[k].hex)
    /\ unique_texts # <<>>

MinOffset(es, text) ==
    CHOOSE o \in {e.offset : e \in {x \in Range(es) : x.text = text}} :
        \A e \in Range(es) : e.text = text => o <= e.offset

EncodedString(buf) ==
    LET d == Utf16LeDecode(buf) IN
    IF d.ok /\ Utf16LeEncode(d.text) = buf THEN d.text ELSE <<>>

StrategyADone ==
    \/ tool = "extract" /\ pc \in {"scanB", "merge"}
    \/ tool = "extract" /\ pc = "done" /\ outcome = "ok"
    \/ tool = "extract_pack_data" /\ pc = "done" /\ outcome = "ok"

StrategyATexts ==
    IF tool = "extract" THEN Texts(sequences) ELSE Texts(pack_lines)

CleanString(s) ==
    /\ \A k \in 1..Len(s) : IsPrintable(s[k]) \/ IsJapanese(s[k])
    /\ Strip(s) = s

----------------------------------------------------------------------------
(* Properties of the CSV normaliser, under SpecCsv *)

AllDigits(t) == t # <<>> /\ \A k \in 1..Len(t) : IsDigit(t[k])

\* a signed integer as written: blanks around, an optional sign, digits
IsSignedInteger(field) ==
    LET t == StripLine(field) IN
    \/ AllDigits(t)
    \/ Len(t) >= 2 /\ t[1] \in {"-", "+"} /\ AllDigits(Tail(t))

\* a line with fewer than three parts or a non-integer first or second part
Malformed(raw) ==
    LET parts == Split2(StripLine(raw)) IN
    \/ Len(parts) < 3
    \/ ~IsSignedInteger(parts[1])
    \/ ~IsSignedInteger(parts[2])

\* C6 (as claimed): is_pause holds exactly when both frames are -1, a pause
\* has duration 0, and every other cue has duration end - start.
C6_DurationIsEndMinusStart ==
    \A k \in 1..Len(lines) :
        LET c == lines[k] IN
        /\ c.is_pause <=> (c.start_time = -1 /\ c.end_time = -1)
        /\ c.is_pause => c.duration = 0
        /\ ~c.is_pause => c.duration = c.end_time - c.start_time

\* C6 (amended): is_pause holds exactly when both frames are -1, a pause has
\* duration 0, a cue with neither frame equal to -1 has duration end - start,
\* and a non-pause cue with exactly one frame equal to -1 has duration 0.
C6_DurationUnlessSentinel ==
    \A k \in 1..Len(lines) :
        LET c == lines[k] IN
        /\ c.is_pause <=> (c.start_time = -1 /\ c.end_time = -1)
        /\ c.is_pause => c.duration = 0
        /\ (c.start_time # -1 /\ c.end_time # -1)
              => c.duration = c.end_time - c.start_time
        /\ (~c.is_pause /\ (c.start_time = -1 \/ c.end_time = -1))
              => c.duration = 0

\* C6 witness: the cue list holds a non-pause cue with exactly one frame
\* equal to -1 and a cue with two real frames.
C6_Witness ==
    /\ \E k \in 1..Len(lines) :
          ~lines[k].is_pause /\ lines[k].start_time = -1 /\ lines[k].end_time = 5
    /\ \E k \in 1..Len(lines) :
          lines[k].start_time = 5 /\ lines[k].end_time = 15 /\ lines[k].duration = 10

\* C7: no non-pause cue whose end frame is smaller than its start frame is
\* in the cue list, and the duration total never counts a negative duration.
C7_NegativeDurationRejected ==
    /\ \A k \in 1..Len(lines) :
          lines[k].is_pause \/ lines[k].end_time >= lines[k].start_time
    /\ total_duration >= 0

Counters == <<lines, dialogue_lines, pause_lines, total_chars, total_duration>>

C9_AveragesDefined ==
    csv_pc = "done"
        => /\ stats.avg_duration_frames.den # 0 /\ stats.avg_chars.den # 0
           /\ stats.dialogue_lines > 0
                 => /\ stats.avg_duration_frames.num * stats.dialogue_lines
                        = stats.total_duration_frames * stats.avg_duration_frames.den
                    /\ stats.avg_chars.num * stats.dialogue_lines
                        = stats.total_chars * stats.avg_chars.den
           /\ stats.dialogue_lines = 0
                 => /\ stats.avg_duration_frames.num = 0
                    /\ stats.avg_chars.num = 0

\* C9 witness: statistics computed for a cue list of pauses only.
C9_Witness ==
    /\ csv_pc = "done"
    /\ stats.dialogue_lines = 0
    /\ stats.pause_lines >= 1

----------------------------------------------------------------------------
(* Properties of the KSEQ scan and of the entry table, under Spec *)

\* the offsets at which the four bytes KSEQ occur in buf
KseqOffsets(buf) == {k \in 0..(Len(buf) - 4) : Slice(buf, k, k + 4) = KSEQ}

\* C11: for a buffer that begins with ELPK and holds no KSEQ tag, the
\* structure scan (analyze_elpk_structure on the decompressed payload,
\* extract_kseq_texts on the raw file) ends without error with no section
\* offset and no section text.
C11_NoKseqEmptyBlockList ==
    (pc = "done" /\ BeginsWithELPK(data) /\ KseqOffsets(data) = {})
        => /\ (tool = "analyze_pack_file" /\ gz = "gzip")
                 => (outcome = "ok" /\ kseq_positions = <<>>
                        /\ japanese_texts = <<>>)
           /\ tool = "extract_kseq_texts"
                 => (outcome = "ok" /\ kseq_positions = <<>> /\ kseq_texts = <<>>)

\* C11 witness: analyze_pack_file has scanned an ELPK payload that holds
\* entry records but no KSEQ tag.
C11_Witness ==
    /\ tool = "analyze_pack_file" /\ pc = "done" /\ outcome = "ok"
    /\ BeginsWithELPK(data) /\ KseqOffsets(data) = {}
    /\ Len(data) > 20
    /\ kseq_positions = <<>>

\* bytes of block k of the scan: [offset_k, offset_k + section_size_k)
Extent(k) ==
    kseq_positions[k]
        .. (kseq_positions[k] + SectionSize(data, kseq_positions, k) - 1)

\* C12: the scan records every offset at which KSEQ occurs, in strictly
\* increasing order; the extents of the blocks are pairwise disjoint, each
\* ends where the next begins, and together they are exactly the bytes from
\* the first KSEQ offset to the end of the buffer.
C12_BlocksPartitionTail ==
    (pc = "done" /\ outcome = "ok"
        /\ tool \in {"analyze_pack_file", "extract_kseq_texts"})
        => LET n == Len(kseq_positions) IN
           /\ Range(kseq_positions) = KseqOffsets(data)
           /\ \A k \in 1..(n - 1) : kseq_positions[k] < kseq_positions[k + 1]
           /\ \A j \in 1..n : \A k \in 1..n :
                 j # k => Extent(j) \cap Extent(k) = {}
           /\ \A k \in 1..(n - 1) :
                 kseq_positions[k] + SectionSize(data, kseq_positions, k)
                     = kseq_positions[k + 1]
           /\ n > 0 => UNION {Extent(k) : k \in 1..n}
                           = kseq_positions[1] .. (Len(data) - 1)

\* C12 witness: a scan that found two blocks behind an entry table.
C12_Witness ==
    /\ tool = "extract_kseq_texts" /\ pc = "done"
    /\ Len(kseq_positions) = 2
    /\ kseq_positions[1] > 20
    /\ kseq_positions[2] + 12 = Len(data)

\* a complete 12-byte record at p that passes the plausibility test
Plausible(buf, p) ==
    /\ p + 12 <= Len(buf)
    /\ 0 < U32(buf, p + 4) /\ U32(buf, p + 4) < Len(buf)
    /\ 0 < U32(buf, p + 8) /\ U32(buf, p + 8) < 10000

\* the stop offset as specified: the first KSEQ offset, else the buffer end
StopOffset(buf) == IF KseqOffsets(buf) # {} THEN kseq_pos(buf) ELSE Len(buf)

TableRead == tool = "analyze_elpk_format" /\ pc = "done" /\ outcome = "ok"

\* C13: the entry table reader stops at the first KSEQ offset, or at the end
\* of the buffer when there is no KSEQ tag: when it has ended below its limit
\* of 50 records, no plausible record is left unread at its cursor before
\* that stop offset.
C13_StopsAtKseqOrBufferEnd ==
    (TableRead /\ Len(entries) < 50 /\ pos < StopOffset(data))
        => ~Plausible(data, pos)

\* C14: header reading and entry-table analysis never end with an unhandled
\* exception, whatever the buffer.
C14_NoUnhandledException ==
    tool = "analyze_elpk_format" => outcome # "struct.error"

----------------------------------------------------------------------------
(* Properties of folder processing, under SpecFolder *)

\* the path handed to the k-th extraction call of the run
Called(k) == (csv_files \o pack_files)[k]

Succeeded(k) == "lines" \in DOMAIN returned[k]

\* C16: a file whose extraction returned None has no entry in
\* extracted_data; the entry of every other processed file holds the lines
\* and the finished statistics that its extraction returned; there is no
\* other entry; and the run ends only after every file found was processed.
C16_FailedFilesLeaveNoEntry ==
    /\ Len(returned) <= Len(csv_files) + Len(pack_files)
    /\ \A k \in 1..Len(returned) :
          IF Succeeded(k)
          THEN /\ Called(k) \in DOMAIN extracted_data
               /\ extracted_data[Called(k)].lines = returned[k].lines
               /\ extracted_data[Called(k)].stats = returned[k].stats
               /\ "avg_chars" \in DOMAIN returned[k].stats
               /\ returned[k].stats.total_lines = Len(returned[k].lines)
          ELSE Called(k) \notin DOMAIN extracted_data
    /\ DOMAIN extracted_data \subseteq {Called(k) : k \in 1..Len(returned)}
    /\ folder_pc = "done"
          => Len(returned) = Len(csv_files) + Len(pack_files)

\* C16 witness: a finished run in which a CSV file failed after a cue had
\* been read from it, a later CSV file and a later PACK file were extracted,
\* and a PACK file failed.
C16_Witness ==
    /\ folder_pc = "done"
    /\ Len(csv_files) = 2 /\ Len(pack_files) = 2
    /\ ~Succeeded(1) /\ Succeeded(2)
    /\ ~Succeeded(3) /\ Succeeded(4)
    /\ DOMAIN extracted_data = {Called(2), Called(4)}
    /\ extracted_data[Called(4)].lines # <<>>

----------------------------------------------------------------------------
(* Properties of the cue text, line index and seconds, under SpecCsv *)

\* what follows the second comma of a line
AfterSecondComma(l) ==
    SubSeq(l, CommaAt(l, CommaAt(l, 1) + 1) + 1, Len(l))

\* str.rstrip(): whitespace removed from the end only
RECURSIVE RstripLine(_)
RstripLine(l) ==
    IF l # <<>> /\ IsBlank(l[Len(l)]) THEN RstripLine(SubSeq(l, 1, Len(l) - 1))
    ELSE l

\* C17 (as claimed): the text of every cue is exactly what follows the
\* second comma of its source line.
C17_TextIsRemainderVerbatim ==
    \A k \in 1..Len(lines) :
        lines[k].text = AfterSecondComma(file[lines[k].line_id])

\* C17 (amended): the text of every cue is what follows the second comma of
\* its source line, embedded commas and leading blanks included, without the
\* whitespace at the end of the line.
C17_TextIsRemainderRstripped ==
    \A k \in 1..Len(lines) :
        lines[k].text = RstripLine(AfterSecondComma(file[lines[k].line_id]))

\* C17 witness: a cue whose text kept its embedded comma and a cue whose
\* text kept its leading blank and lost its trailing one.
C17_Witness ==
    /\ \E k \in 1..Len(lines) : lines[k].text = <<"a", ",", "a">>
    /\ \E k \in 1..Len(lines) :
          /\ lines[k].text = <<" ", "a">>
          /\ AfterSecondComma(file[lines[k].line_id]) = <<" ", "a", " ">>

\* C18: the line index of every cue is the 1-based position of its source
\* line among all lines read, blank and skipped lines counted: the cue holds
\* the fields of the line at that position, every well-formed line read has
\* its cue, and the indexes increase strictly along the cue list.
C18_LineIndexIsPosition ==
    /\ \A k \in 1..Len(lines) :
          /\ lines[k].line_id \in 1..Len(file)
          /\ LET parts == Split2(StripLine(file[lines[k].line_id])) IN
             /\ ~Malformed(file[lines[k].line_id])
             /\ lines[k].start_time = ParseInt(parts[1]).value
             /\ lines[k].end_time = ParseInt(parts[2]).value
             /\ lines[k].text = parts[3]
    /\ {lines[k].line_id : k \in 1..Len(lines)}
          = {n \in 1..Len(file) : ~Malformed(file[n])}
    /\ \A k \in 1..(Len(lines) - 1) : lines[k].line_id < lines[k + 1].line_id

\* C18 witness: a blank first line, then a cue with line index 2.
C18_Witness ==
    /\ Len(file) = 2
    /\ StripLine(file[1]) = <<>>
    /\ Len(lines) = 1 /\ lines[1].line_id = 2

\* 30 times a rational
Times30(a) == Frac(30 * a.num, a.den)

----------------------------------------------------------------------------
(* Properties of the entry table reader, under Spec *)

\* record k (from 0) ends the run: the limit, the stop offset, or a record
\* that is not plausible
EndsRun(buf, stop, k) ==
    k >= 50 \/ 20 + 12 * k >= stop \/ ~Plausible(buf, 20 + 12 * k)

\* the length of the longest run of plausible records from offset 20
PlausibleRun(buf, stop) ==
    CHOOSE k \in 0..50 :
        EndsRun(buf, stop, k) /\ \A j \in 0..(k - 1) : ~EndsRun(buf, stop, j)

C20_SkipsPlausibleAfterImplausible ==
    /\ TableRead
    /\ entries = <<>>
    /\ 44 <= kseq_pos(data)
    /\ ~Plausible(data, 20) /\ Plausible(data, 32)

----------------------------------------------------------------------------
(* Properties of the scanners, under SpecScan *)

\* the bytes of the window an entry was accepted for
WindowOf(e) == e.offset .. (e.offset + (Len(e.hex) \div 2) - 1)

\* C21: along the Strategy A result, each accepted window begins at or after
\* the end of the one before it (o2 >= o1 + L1), so the offsets increase
\* strictly and no byte of the buffer belongs to two accepted windows; each
\* window holds the bytes of the buffer at its offset, and the scan position
\* is never before the end of the last accepted window.
C21_WindowsDoNotOverlap ==
    /\ \A k \in 1..(Len(scan_texts) - 1) :
          /\ scan_texts[k + 1].offset
                >= scan_texts[k].offset + (Len(scan_texts[k].hex) \div 2)
          /\ scan_texts[k].offset < scan_texts[k + 1].offset
    /\ \A j \in 1..Len(scan_texts) : \A k \in 1..Len(scan_texts) :
          j # k => WindowOf(scan_texts[j]) \cap WindowOf(scan_texts[k]) = {}
    /\ \A k \in 1..Len(scan_texts) :
          LET e == scan_texts[k] IN
          /\ (Len(e.hex) \div 2) \in Range(WindowLengths)
          /\ FromHex(e.hex) = Slice(data, e.offset, e.offset + (Len(e.hex) \div 2))
          /\ scan_i >= e.offset + (Len(e.hex) \div 2)

\* C21 witness: a finished scan that accepted a 20-byte window at offset 0
\* and the 20-byte window right behind it.
C21_Witness ==
    /\ tool = "find_japanese_text_sequences" /\ pc = "done"
    /\ Len(scan_texts) = 2
    /\ scan_texts[1].offset = 0 /\ Len(scan_texts[1].hex) = 40
    /\ scan_texts[2].offset = 20

\* a byte string that is 16-bit little-endian text: an even number of bytes,
\* every high surrogate followed by a low one, every low one after a high one
WellFormed(raw) ==
    /\ Len(raw) % 2 = 0
    /\ \A k \in 1..(Len(raw) \div 2) :
          /\ IsHighSurrogate(Unit(raw, k))
                => (k < Len(raw) \div 2 /\ IsLowSurrogate(Unit(raw, k + 1)))
          /\ IsLowSurrogate(Unit(raw, k))
                => (k > 1 /\ IsHighSurrogate(Unit(raw, k - 1)))

\* a well-formed byte string whose text passes the script-range test and
\* keeps min_len or more characters after cleaning
Acceptable(raw, min_len) ==
    /\ WellFormed(raw)
    /\ LET t == RstripNul(DecodeUnits(raw, 1, <<>>).text) IN
       /\ HasJapanese(t)
       /\ Len(Strip(CleanText(t))) >= min_len

\* the window lengths (by index) that fit at i and are acceptable there
GoodWindows(i) ==
    {w \in 1..Len(WindowLengths) :
        /\ i + WindowLengths[w] <= Len(data)
        /\ Acceptable(Slice(data, i, i + WindowLengths[w]), MinLen)}

\* a window that fits at i is not well-formed
FailsToDecode(i) ==
    \E w \in 1..Len(WindowLengths) :
        /\ i + WindowLengths[w] <= Len(data)
        /\ ~WellFormed(Slice(data, i, i + WindowLengths[w]))

\* the runs of Strategy B: run k lies between terminators k and k + 1
RunBytes(k) ==
    LET positions == NullPositions(data, 0, <<>>) IN
    Slice(data, positions[k] + 2, positions[k + 1])

\* no result of either strategy is made of bytes that are not well-formed
OnlyWellFormedEntries ==
    /\ \A k \in 1..Len(scan_texts) : WellFormed(FromHex(scan_texts[k].hex))
    /\ \A k \in 1..Len(null_texts) : WellFormed(FromHex(null_texts[k].hex))
    /\ outcome \in {"none", "ok"}
    /\ (tool = "find_japanese_by_null_terminators" /\ pc = "done")
          => \A k \in 1..(Len(NullPositions(data, 0, <<>>)) - 1) :
                (Len(RunBytes(k)) > 4 /\ Acceptable(RunBytes(k), 1))
                    => \E j \in 1..Len(null_texts) :
                          /\ null_texts[j].offset
                                = NullPositions(data, 0, <<>>)[k] + 2
                          /\ FromHex(null_texts[j].hex) = RunBytes(k)

\* an iteration of the Strategy A loop at which some window fails to decode:
\* the loop goes on, and the iteration ends as the well-formed windows decide
GoesOnAfterFailure ==
    (pc = "scan" /\ scan_i < Len(data) - 3 /\ FailsToDecode(scan_i))
        => /\ pc' = "scan"
           /\ outcome' = outcome
           /\ IF GoodWindows(scan_i) = {}
              THEN scan_texts' = scan_texts /\ scan_i' = scan_i + 2
              ELSE LET w == CHOOSE w \in GoodWindows(scan_i) :
                               \A v \in GoodWindows(scan_i) : w <= v
                   IN /\ Len(scan_texts') = Len(scan_texts) + 1
                      /\ SubSeq(scan_texts', 1, Len(scan_texts)) = scan_texts
                      /\ scan_texts'[Len(scan_texts')].offset = scan_i
                      /\ FromHex(scan_texts'[Len(scan_texts')].hex)
                            = Slice(data, scan_i, scan_i + WindowLengths[w])
                      /\ scan_i' = scan_i + WindowLengths[w]

\* C22: a window or run whose bytes are not 16-bit little-endian text (an
\* unpaired surrogate, an odd byte count) is a non-match and no error: no
\* result is ever made of such bytes, no scan ends in an exception, the
\* Strategy A iteration that met such a window goes on with the next window
\* length (accepting the first acceptable one) or with the offset two bytes
\* on, and Strategy B still returns every acceptable run.
C22_DecodeFailureIsNonMatch ==
    []OnlyWellFormedEntries /\ [][GoesOnAfterFailure]_vars

\* C22 witness: a finished Strategy A scan whose 20-byte window at offset 0
\* ends in an unpaired high surrogate and whose 40-byte window at offset 0,
\* which holds the pair, was accepted.
C22_Witness ==
    /\ tool = "find_japanese_text_in_data" /\ pc = "done"
    /\ ~WellFormed(Slice(data, 0, 20))
    /\ Len(scan_texts) >= 1
    /\ scan_texts[1].offset = 0 /\ Len(scan_texts[1].hex) = 80

\* C22, second case: Strategy B skipped a run of an odd number of bytes and
\* returned the run behind it.
C22_OddRunSkipped ==
    /\ tool = "find_japanese_by_null_terminators" /\ pc = "done"
    /\ Len(NullPositions(data, 0, <<>>)) >= 3
    /\ Len(RunBytes(1)) > 4 /\ Len(RunBytes(1)) % 2 = 1
    /\ null_texts # <<>>

\* byte p (0-based) of the buffer is 00
ZeroAt(p) == p >= 0 /\ p < Len(data) /\ data[p + 1] = 0

\* the number of 00 bytes that lie directly before offset p
ZerosBefore(p) == Cardinality({q \in 0..(p - 1) : \A r \in q..(p - 1) : ZeroAt(r)})

\* the offsets of the 00 00 terminators: the pairs of a run of 00 bytes,
\* counted from the start of that run
Terminators == {p \in 0..(Len(data) - 2) :
                   ZeroAt(p) /\ ZeroAt(p + 1) /\ ZerosBefore(p) % 2 = 0}

\* t1 and t2 are terminators with no terminator between them
Consecutive(t1, t2) ==
    /\ t1 \in Terminators /\ t2 \in Terminators /\ t1 < t2
    /\ \A t \in Terminators : ~(t1 < t /\ t < t2)

\* C23: Strategy B returns results only for the byte runs that lie between
\* two consecutive 00 00 terminators: every result is the run from the first
\* byte after a terminator to the next terminator, longer than 4 bytes, with
\* that first byte's offset as its offset; every such run longer than 4
\* bytes that is acceptable has its result, once; no run between two
\* consecutive terminators holds a 00 00 pair; and nothing is returned for
\* the bytes before the first terminator or after the last one.
C23_RunsBetweenTerminators ==
    (tool = "find_japanese_by_null_terminators" /\ pc = "done")
        => /\ \A k \in 1..Len(null_texts) :
                 LET e == null_texts[k]
                     end_pos == e.offset + (Len(e.hex) \div 2)
                 IN /\ Consecutive(e.offset - 2, end_pos)
                    /\ end_pos - e.offset > 4
                    /\ FromHex(e.hex) = Slice(data, e.offset, end_pos)
           /\ \A k \in 1..(Len(null_texts) - 1) :
                 null_texts[k].offset < null_texts[k + 1].offset
           /\ \A t1 \in Terminators : \A t2 \in Terminators :
                 Consecutive(t1, t2)
                     => /\ \A q \in (t1 + 2)..(t2 - 2) : ~(ZeroAt(q) /\ ZeroAt(q + 1))
                        /\ (t2 - (t1 + 2) > 4
                               /\ Acceptable(Slice(data, t1 + 2, t2), 1))
                              => \E k \in 1..Len(null_texts) :
                                    null_texts[k].offset = t1 + 2

\* C23 witness: Japanese text before the first terminator and bytes after
\* the last one gave no result; the one run between the two terminators did.
C23_Witness ==
    /\ tool = "find_japanese_by_null_terminators" /\ pc = "done"
    /\ Terminators = {20, 28}
    /\ HasJapanese(DecodeUnits(Slice(data, 0, 20), 1, <<>>).text)
    /\ Len(data) > 30
    /\ Len(null_texts) = 1 /\ null_texts[1].offset = 22

----------------------------------------------------------------------------
(* Properties of the merge, under Spec *)

\* C24: the merged result of extract_japanese_from_pack_correct holds each
\* text that Strategy A or Strategy B returned exactly once: no two of its
\* entries have the same text, every returned text has its entry, every
\* entry is an entry one of the strategies returned, and no entry has an
\* empty text.  The dedup loop of extract_utf16_alternative_method does the
\* same for the texts of its scan, in the order of their first occurrence.
C24_MergedTextsOnce ==
    /\ (tool = "extract" /\ pc = "done" /\ outcome = "ok")
          => /\ \A j \in 1..Len(unique_texts) : \A k \in 1..Len(unique_texts) :
                   unique_texts[j].text = unique_texts[k].text => j = k
             /\ Range(Texts(unique_texts))
                   = Range(Texts(sequences)) \cup Range(Texts(null_texts))
             /\ Range(unique_texts) \subseteq Range(sequences) \cup Range(null_texts)
             /\ \A k \in 1..Len(unique_texts) : unique_texts[k].text # <<>>
    /\ (tool = "extract_utf16_alternative_method" /\ pc = "done"
            /\ outcome = "ok")
          => /\ \A j \in 1..Len(alt_unique) : \A k \in 1..Len(alt_unique) :
                   alt_unique[j] = alt_unique[k] => j = k
             /\ Range(alt_unique) = Range(alt_found)
             /\ \A k \in 1..Len(alt_unique) : alt_unique[k] # <<>>
             /\ \A j \in 1..Len(alt_unique) : \A k \in 1..Len(alt_unique) :
                   j < k => \E m \in 1..Len(alt_found) :
                               /\ alt_found[m] = alt_unique[j]
                               /\ \A n \in 1..m : alt_found[n] # alt_unique[k]

\* C24 witness: both strategies returned the same text, Strategy A returned
\* a second text, and the merged result holds the two texts once each.
C24_Witness ==
    /\ tool = "extract" /\ pc = "done" /\ outcome = "ok"
    /\ Len(sequences) + Len(null_texts) > Len(unique_texts)
    /\ Range(Texts(sequences)) \cap Range(Texts(null_texts)) # {}
    /\ Len(unique_texts) = 2

\* C24, second case: the alternative method found the same text at several
\* offsets and returned it once, with another text.
C24_AlternativeDeduplicated ==
    /\ tool = "extract_utf16_alternative_method" /\ pc = "done"
    /\ Len(alt_found) > Len(alt_unique)
    /\ Len(alt_unique) >= 2

----------------------------------------------------------------------------
(* Properties of the cue statistics, under SpecCsv *)

\* the cues of the list that are not pauses
DialogueCues == {k \in 1..Len(lines) : ~lines[k].is_pause}

RECURSIVE SumChars(_)
SumChars(ks) ==
    IF ks = {} THEN 0
    ELSE LET k == CHOOSE k \in ks : TRUE IN
         Len(lines[k].text) + SumChars(ks \ {k})

RECURSIVE SumDuration(_)
SumDuration(ks) ==
    IF ks = {} THEN 0
    ELSE LET k == CHOOSE k \in ks : TRUE IN
         lines[k].duration + SumDuration(ks \ {k})

\* C25: the running counters agree with the cue list after every line, and
\* so do the finished statistics: total_lines is the number of cues and the
\* sum of dialogue_lines and pause_lines, pause_lines is the number of cues
\* with is_pause, and total_chars and total_duration_frames are the sums of
\* the text lengths and of the durations of the cues that are not pauses.
C25_StatisticsAgreeWithCues ==
    /\ dialogue_lines = Cardinality(DialogueCues)
    /\ pause_lines = Len(lines) - Cardinality(DialogueCues)
    /\ total_chars = SumChars(DialogueCues)
    /\ total_duration = SumDuration(DialogueCues)
    /\ csv_pc = "done"
          => /\ stats.total_lines = Len(lines)
             /\ stats.total_lines = stats.dialogue_lines + stats.pause_lines
             /\ stats.pause_lines = Len(lines) - Cardinality(DialogueCues)
             /\ stats.dialogue_lines = Cardinality(DialogueCues)
             /\ stats.total_chars = SumChars(DialogueCues)
             /\ stats.total_duration_frames = SumDuration(DialogueCues)

\* C25 witness: statistics of a pause cue that carries a text and of a
\* dialogue cue of 10 frames; the text of the pause is not counted.
C25_Witness ==
    /\ csv_pc = "done"
    /\ Len(lines) = 2
    /\ lines[1].is_pause /\ lines[1].text = <<"a">>
    /\ ~lines[2].is_pause /\ lines[2].duration = 10
    /\ stats.total_chars = 1 /\ stats.total_duration_frames = 10
    /\ stats.pause_lines = 1

----------------------------------------------------------------------------
(* Properties of the entry table reader, continued, under Spec *)

\* C26: every record the entry table reader has stored lies entirely before
\* the first KSEQ tag: its 12 bytes end at or before the tag's offset.
C26_RecordsEndBeforeKseq ==
    \A k \in 1..Len(entries) : entries[k].position + 12 <= kseq_pos(data)

----------------------------------------------------------------------------
(* The window and its threads *)

Finished(k) == workers[k].pc \in {"done", "error"}

OverlappingRuns ==
    /\ Len(workers) >= 2
    /\ \A k \in 1..Len(workers) : workers[k].kind = "auto" /\ Finished(k)

\* C27: a second folder selected while the first folder's worker is still
\* running does not interfere with it: once every worker has finished,
\* csv_files, pack_files and extracted_data describe exactly the files of
\* the folder selected last.
C27_LastFolderOnly ==
    OverlappingRuns =>
        /\ csv_files = << <<"csv", current_folder>> >>
        /\ pack_files = << <<"pack", current_folder>> >>
        /\ DOMAIN extracted_data =
              {<<"csv", current_folder>>, <<"pack", current_folder>>}

\* C28: is_processing holds whenever a worker thread is running.
C28_ProcessingFlagCoversWorkers ==
    (\E k \in 1..Len(workers) : ~Finished(k)) => is_processing

----------------------------------------------------------------------------
(* The stored results and their readers *)

\* C29: every per-file result stored in extracted_data, from a CSV file or
\* from a PACK file, carries the fields its consumers read: each line has
\* is_pause and text, and stats has dialogue_lines, total_chars,
\* total_duration_frames and total_duration_seconds, so that displaying or
\* exporting it never meets a missing field.
C29_ResultsCarryFieldsRead ==
    \A path \in DOMAIN extracted_data :
        LET file_data == extracted_data[path]
        IN /\ StatsKeysRead \subseteq DOMAIN file_data.stats
           /\ \A k \in 1..Len(file_data.lines) :
                 LineKeysRead(file_data.lines[k])
                    \subseteq DOMAIN file_data.lines[k]

----------------------------------------------------------------------------
(* Termination of the window scan *)

\* one iteration of the outer loop: the position moves forward by the length
\* of the window it accepted, or by 2 when it accepted none
IterationAdvances ==
    (pc = "scan" /\ scan_steps' = scan_steps + 1) =>
        /\ scan_i' >= scan_i + 2
        /\ IF Len(scan_texts') = Len(scan_texts) + 1
           THEN /\ scan_texts'[Len(scan_texts')].offset = scan_i
                /\ scan_i' = scan_i + (Len(scan_texts'[Len(scan_texts')].hex) \div 2)
           ELSE /\ scan_texts' = scan_texts
                /\ scan_i' = scan_i + 2

\* the position is twice the number of iterations or more and never beyond
\* the end of the buffer, so a buffer of n bytes allows n \div 2 iterations
\* at most; the loop has ended when the scan has returned
IterationsBounded ==
    pc \in {"scan", "done"} /\ tool \in {"find_japanese_text_sequences",
                                          "find_japanese_text_in_data"}
        => /\ 2 * scan_steps <= scan_i
           /\ scan_i <= Len(data)
           /\ pc = "done" => ~(scan_i < Len(data) - 3)

\* C30: the Strategy A scan terminates on every finite buffer: each
\* iteration of the outer loop advances the scan position by at least 2
\* bytes, by the accepted window length on a match and by 2 otherwise, and
\* the position never moves backwards; the number of iterations is bounded
\* by half the length of the buffer.
C30_ScanTerminates ==
    /\ [][IterationAdvances]_vars
    /\ [][pc = "scan" /\ pc' = "scan" => scan_steps' = scan_steps + 1]_vars
    /\ []IterationsBounded

\* C30 witness: a scan that has returned after iterations of both kinds: it
\* stepped over two bytes, accepted the 20-byte window at offset 2 and
\* stepped over two bytes more, three iterations in all.
C30_Witness ==
    /\ pc = "done" /\ outcome = "ok"
    /\ tool = "find_japanese_text_sequences"
    /\ Len(scan_texts) = 1
    /\ scan_texts[1].offset = 2 /\ Len(scan_texts[1].hex) = 40
    /\ scan_i = 24 /\ scan_steps = 3

====
